---- MODULE Spec2Model ----
(***************************************************************************)
(* Butterfly Viewer: split locking, zoom/pan synchronisation between the   *)
(* image windows of the MDI area, and the zoom adjustment factor.          *)
(*                                                                         *)
(* Lengths, zoom factors and scene coordinates are exact rationals kept    *)
(* as normalised pairs <<numerator, denominator>> (denominator > 0).       *)
(* Scroll bar values and widget coordinates are integers, as in Qt.        *)
(***************************************************************************)
EXTENDS Integers, Sequences, FiniteSets, TLC

VARIABLES views, main, ghost, steps, calc, scene, dialog, csv, app

vars == <<views, main, ghost, steps, calc, scene, dialog, csv, app>>

----------------------------------------------------------------------------
(* Rational arithmetic *)

Abs(i) == IF i < 0 THEN -i ELSE i

Min(a, b) == IF a <= b THEN a ELSE b

Max(a, b) == IF a >= b THEN a ELSE b

RECURSIVE GCD(_, _)
GCD(a, b) == IF b = 0 THEN a ELSE GCD(b, a % b)

Normalised(n, d, g) ==
    IF d < 0 THEN <<(-n) \div g, (-d) \div g>> ELSE <<n \div g, d \div g>>

R(n, d) == Normalised(n, d, GCD(Abs(n), Abs(d)))

RI(i) == <<i, 1>>

\* a + b over the least common denominator; g = GCD of the denominators
RAddOver(a, b, g) == R(a[1] * (b[2] \div g) + b[1] * (a[2] \div g), (a[2] \div g) * b[2])

RAdd(a, b) == RAddOver(a, b, GCD(a[2], b[2]))

RNeg(a) == <<-a[1], a[2]>>

RSub(a, b) == RAdd(a, RNeg(b))

\* a * b, reduced crosswise first; g1 = GCD(|a[1]|, b[2]), g2 = GCD(|b[1]|, a[2])
RMulOver(a, b, g1, g2) ==
    <<(a[1] \div g1) * (b[1] \div g2), (a[2] \div g2) * (b[2] \div g1)>>

RMul(a, b) == RMulOver(a, b, GCD(Abs(a[1]), b[2]), GCD(Abs(b[1]), a[2]))

RInv(a) == IF a[1] < 0 THEN <<-a[2], -a[1]>> ELSE <<a[2], a[1]>>

RDiv(a, b) == RMul(a, RInv(b))

RLt(a, b) == a[1] * b[2] < b[1] * a[2]

RLe(a, b) == a[1] * b[2] <= b[1] * a[2]

RAbs(a) == <<Abs(a[1]), a[2]>>

Floor(a) == a[1] \div a[2]

\* int(x): truncation toward zero
Trunc(a) == IF a[1] >= 0 THEN a[1] \div a[2] ELSE -((-a[1]) \div a[2])

\* qRound / QPointF.toPoint: nearest integer
Round(a) == (2 * a[1] + a[2]) \div (2 * a[2])

----------------------------------------------------------------------------
(* aux_functions.py: zoom adjustment factor *)

\* The dimension None is the empty sequence, a number d is <<d>>.
None == <<>>

determineSyncSenderDimension_BoxShorterSide(width, height, sync_by) ==
    IF sync_by = "width" THEN <<width>>
    ELSE IF sync_by = "height" THEN <<height>>
    ELSE IF sync_by = "pixel" THEN None
    ELSE IF height >= width THEN <<width>>
    ELSE <<height>>

determineSyncSenderDimension(width, height, sync_by) ==
    IF sync_by = "width" THEN <<width>>
    ELSE IF sync_by = "height" THEN <<height>>
    ELSE IF sync_by = "pixel" THEN None
    ELSE IF height >= width THEN <<height>>
    ELSE <<width>>

determineSyncAdjustmentFactor_ShorterSide(sync_by, sender_dimension, receiver_width, receiver_height) ==
    IF receiver_width = 0 \/ receiver_height = 0 THEN RI(1)
    ELSE IF sync_by = "width" THEN R(sender_dimension[1], receiver_width)
    ELSE IF sync_by = "height" THEN R(sender_dimension[1], receiver_height)
    ELSE IF sync_by = "pixel" THEN RI(1)
    ELSE IF receiver_width >= receiver_height
         THEN R(sender_dimension[1], receiver_height)
         ELSE R(sender_dimension[1], receiver_width)

\* without the test for a zero width or height a division by zero is reached
determineSyncAdjustmentFactor_WithoutZeroCheck(sync_by, sender_dimension, receiver_width, receiver_height) ==
    IF sync_by = "width" THEN R(sender_dimension[1], receiver_width)
    ELSE IF sync_by = "height" THEN R(sender_dimension[1], receiver_height)
    ELSE IF sync_by = "pixel" THEN RI(1)
    ELSE IF receiver_width >= receiver_height
         THEN R(sender_dimension[1], receiver_width)
         ELSE R(sender_dimension[1], receiver_height)

determineSyncAdjustmentFactor(sync_by, sender_dimension, receiver_width, receiver_height) ==
    IF receiver_width = 0 \/ receiver_height = 0 THEN RI(1)
    ELSE IF sync_by = "width" THEN R(sender_dimension[1], receiver_width)
    ELSE IF sync_by = "height" THEN R(sender_dimension[1], receiver_height)
    ELSE IF sync_by = "pixel" THEN RI(1)
    ELSE IF receiver_width >= receiver_height
         THEN R(sender_dimension[1], receiver_width)
         ELSE R(sender_dimension[1], receiver_height)

----------------------------------------------------------------------------
(* Bounds and inputs *)

\* window slots of the MDI area, in subWindowList (creation) order
MaxViewers == 2

Viewers == 1..MaxViewers

\* pixmaps that can be loaded: <<width, height, top-right width, top-right height>>
\* (a 0 x 0 top-right pixmap is an absent overlay)
Images == {<<80, 40, 0, 0>>, <<40, 40, 20, 20>>}

\* size of every subwindow's SplitView widget (frameless, no margins)
WindowWidth == 44

WindowHeight == 44

\* sizes a subwindow can be given: the one it is shown at and another one
WindowSizes == {<<WindowWidth, WindowHeight>>, <<WindowWidth + 6, WindowHeight - 4>>}

\* mouse positions on a widget, one outside it
Positions == {<<-5, -3>>, <<11, 21>>}

\* split shortcut buttons of the manager: <<x_percent, y_percent>>
ShortcutPercents == {<<<<0, 1>>, <<0, 1>>>>, <<<<1, 2>>, <<1, 2>>>>, <<<<1, 1>>, <<0, 1>>>>}

\* where a drag leaves the scroll bars, as fractions of their ranges
PanTargets == {<<<<0, 1>>, <<0, 1>>>>, <<<<1, 2>>, <<1, 3>>>>, <<<<1, 1>>, <<1, 1>>>>}

\* values an opacity slider is moved to (percent)
SliderValues == {40, 100}

\* the values of the specification of the opacity sliders alone
OpacityValues == {0, 33, 40, 100}

\* slider moves handled in that specification
MaxOpacityEvents == 3

\* mouse wheel turns, in whole notches
WheelNotches == {-1, 1}

\* largest image dimension given to the adjustment factor functions
MaxDim == 3

SyncZoomBys == {"box", "width", "height", "pixel"}

\* user events the model handles before it stops (loadFile is not counted)
MaxEvents == 2

\* the same for the specification of the synchronisation events alone
MaxSyncEvents == 3

\* where the mouse rests during the synchronisation events
SyncCursor == <<11, 21>>

----------------------------------------------------------------------------
(* Geometry of one viewer (SynchableGraphicsView under a SplitView) *)

zoomFactorDelta == <<5, 4>>

render_buffer == 100

padding_margin == 2

px_deadzone == 8

peek_precent == <<1, 10>>

Clamp(x, lo, hi) == Max(lo, Min(x, hi))

\* QGraphicsView.mapToScene(x, y): widget pixel to scene point
mapToScene(vw, x, y) ==
    <<RDiv(RI(x + vw.hvalue), vw.zoomFactor), RDiv(RI(y + vw.vvalue), vw.zoomFactor)>>

\* QGraphicsView.mapFromScene(point): scene point to the nearest widget pixel
mapFromScene(vw, p) ==
    <<Round(RSub(RMul(p[1], vw.zoomFactor), RI(vw.hvalue))),
      Round(RSub(RMul(p[2], vw.zoomFactor), RI(vw.vvalue)))>>

\* scroll bar ranges follow the transformed scene rectangle; values are
\* re-bound to the new ranges
ScrollRange(z, left, extent, viewport) ==
    <<Round(RMul(z, left)),
      Max(Round(RMul(z, left)), Round(RSub(RMul(z, RAdd(left, extent)), RI(viewport))))>>

Rebound(vw, h, v) ==
    [vw EXCEPT !.hmin = h[1], !.hmax = h[2], !.hvalue = Clamp(@, h[1], h[2]),
               !.vmin = v[1], !.vmax = v[2], !.vvalue = Clamp(@, v[1], v[2])]

recalculateContentSize(vw) ==
    Rebound(vw,
            ScrollRange(vw.zoomFactor, vw.sceneRect[1], vw.sceneRect[3], vw.width),
            ScrollRange(vw.zoomFactor, vw.sceneRect[2], vw.sceneRect[4], vw.height))

\* QGraphicsView.centerOn(x, y): integer scroll bar values, bound to the range
centerOn(vw, p) ==
    [vw EXCEPT
       !.hvalue = Clamp(Trunc(RSub(RMul(vw.zoomFactor, p[1]), R(vw.width, 2))), vw.hmin, vw.hmax),
       !.vvalue = Clamp(Trunc(RSub(RMul(vw.zoomFactor, p[2]), R(vw.height, 2))), vw.vmin, vw.vmax)]

\* scene point under the centre of the viewport
centerPoint(vw) == mapToScene(vw, vw.width \div 2, vw.height \div 2)

ScenePercent(center, origin, extent) ==
    IF extent # RI(0) THEN RDiv(RSub(center, origin), extent) ELSE RI(0)

PercentOf(c, sr) == <<ScenePercent(c[1], sr[1], sr[3]), ScenePercent(c[2], sr[2], sr[4])>>

\* SynchableGraphicsView.scrollState (getter)
scrollState(vw) == PercentOf(centerPoint(vw), vw.sceneRect)

\* SynchableGraphicsView.scrollState (setter)
setScrollState(vw, state) ==
    centerOn(vw, <<RAdd(RMul(state[1], vw.sceneRect[3]), vw.sceneRect[1]),
                   RAdd(RMul(state[2], vw.sceneRect[4]), vw.sceneRect[2])>>)

\* SynchableGraphicsView.zoomFactor (setter): scale about the view centre;
\* QGraphicsView.setTransform does nothing when the matrix stays the same
setZoomFactor(vw, newZoomFactor) ==
    IF newZoomFactor = vw.zoomFactor THEN vw
    ELSE centerOn(recalculateContentSize([vw EXCEPT !.zoomFactor = newZoomFactor]),
                  centerPoint(vw))

\* SplitView.resize_scene: the scene rectangle the code installs
scene_rect(vw) ==
    LET peek_margin_x == RMul(RI(vw.width), peek_precent)
        peek_margin_y == RMul(RI(vw.height), peek_precent)
        width_viewport == RDiv(RSub(RI(vw.width), peek_margin_x), vw.zoomFactor)
        height_viewport == RDiv(RSub(RI(vw.height), peek_margin_y), vw.zoomFactor)
        width_scene == RMul(RI(2), RAdd(width_viewport, R(vw.imageWidth, 2)))
        height_scene == RMul(RI(2), RAdd(height_viewport, R(vw.imageHeight, 2)))
    IN  <<RAdd(RNeg(RDiv(width_scene, RI(2))), R(vw.imageWidth, 2)),
          RAdd(RNeg(RDiv(height_scene, RI(2))), R(vw.imageHeight, 2)),
          width_scene, height_scene>>

\* SynchableGraphicsView.centerView
centerView(vw) ==
    [vw EXCEPT !.vvalue = Clamp(Trunc(R(vw.vmax + vw.vmin, 2)), vw.vmin, vw.vmax),
               !.hvalue = Clamp(Trunc(R(vw.hmax + vw.hmin, 2)), vw.hmin, vw.hmax)]

\* checkTransformChanged.different with delta = 0.001
different(t, u) ==
    IF u = RI(0)
    THEN RLt(<<1, 1000>>, RAbs(RSub(t, u)))
    ELSE RLt(<<1, 1000>>, RAbs(RDiv(RSub(t, u), u)))

QRectF(topLeft, bottomRight) ==
    <<topLeft[1], topLeft[2], RSub(bottomRight[1], topLeft[1]), RSub(bottomRight[2], topLeft[2])>>

\* the view mapping (zoom and scroll bar values) of the main view
Mapping(vw) == [zoomFactor |-> vw.zoomFactor, hvalue |-> vw.hvalue, vvalue |-> vw.vvalue]

WidgetPoint_Unclamped(p) == p

\* update_split lines 574-577 (refresh: 613-617): max(x, 0), max(y, 0) of the
\* split position on the widget
WidgetPointClamped(p) == <<Max(p[1], 0), Max(p[2], 0)>>

\* the bottom-left pane reaching to the far edge of the widget
split_rects_BottomLeftToFarEdge(m, point_of_mouse_on_widget, width, height, topright_zoom_adjust, bottomright_zoom_adjust, bottomleft_zoom_adjust) ==
    LET origin == mapToScene(m, 0, 0)
        split == mapToScene(m, Max(point_of_mouse_on_widget[1], 0),
                               Max(point_of_mouse_on_widget[2], 0))
        bottom_right == mapToScene(m, width, height)
        buf == RI(render_buffer)
        pane(left, top, right, bottom, adjust) ==
            QRectF(<<RDiv(left, adjust), RDiv(top, adjust)>>,
                   <<RAdd(RDiv(right, adjust), buf), RAdd(RDiv(bottom, adjust), buf)>>)
    IN  [rect_of_scene_topright |->
             pane(split[1], origin[2], bottom_right[1], split[2], topright_zoom_adjust),
         rect_of_scene_bottomright |->
             pane(split[1], split[2], bottom_right[1], bottom_right[2], bottomright_zoom_adjust),
         rect_of_scene_bottomleft |->
             pane(origin[1], split[2], bottom_right[1], bottom_right[2], bottomleft_zoom_adjust)]

\* the render buffer on every edge instead of on the far edges alone
split_rects_BufferOnEveryEdge(m, point_of_mouse_on_widget, width, height, topright_zoom_adjust, bottomright_zoom_adjust, bottomleft_zoom_adjust) ==
    LET origin == mapToScene(m, 0, 0)
        split == mapToScene(m, Max(point_of_mouse_on_widget[1], 0),
                               Max(point_of_mouse_on_widget[2], 0))
        bottom_right == mapToScene(m, width, height)
        buf == RI(render_buffer)
        pane(left, top, right, bottom, adjust) ==
            QRectF(<<RSub(RDiv(left, adjust), buf), RSub(RDiv(top, adjust), buf)>>,
                   <<RAdd(RDiv(right, adjust), buf), RAdd(RDiv(bottom, adjust), buf)>>)
    IN  [rect_of_scene_topright |->
             pane(split[1], origin[2], bottom_right[1], split[2], topright_zoom_adjust),
         rect_of_scene_bottomright |->
             pane(split[1], split[2], bottom_right[1], bottom_right[2], bottomright_zoom_adjust),
         rect_of_scene_bottomleft |->
             pane(origin[1], split[2], split[1], bottom_right[2], bottomleft_zoom_adjust)]

\* SplitView.update_split, lines 568-603 (the same lines close
\* refresh_split_based_on_last_updated_point_of_split_on_scene_main):
\* the scene rectangles of the three overlay views, from the mapping m of the
\* main view and the split position on the widget
split_rects(m, point_of_mouse_on_widget, width, height, topright_zoom_adjust, bottomright_zoom_adjust, bottomleft_zoom_adjust) ==
    LET origin == mapToScene(m, 0, 0)
        split == mapToScene(m, WidgetPointClamped(point_of_mouse_on_widget)[1],
                               WidgetPointClamped(point_of_mouse_on_widget)[2])
        bottom_right == mapToScene(m, width, height)
        buf == RI(render_buffer)
        scale_topright == RDiv(RI(1), topright_zoom_adjust)
        scale_bottomright == RDiv(RI(1), bottomright_zoom_adjust)
        scale_bottomleft == RDiv(RI(1), bottomleft_zoom_adjust)
    IN  [rect_of_scene_topright |->
             QRectF(<<RMul(split[1], scale_topright), RMul(origin[2], scale_topright)>>,
                    <<RAdd(RMul(bottom_right[1], scale_topright), buf),
                      RAdd(RMul(split[2], scale_topright), buf)>>),
         rect_of_scene_bottomright |->
             QRectF(<<RMul(split[1], scale_bottomright), RMul(split[2], scale_bottomright)>>,
                    <<RAdd(RMul(bottom_right[1], scale_bottomright), buf),
                      RAdd(RMul(bottom_right[2], scale_bottomright), buf)>>),
         rect_of_scene_bottomleft |->
             QRectF(<<RMul(origin[1], scale_bottomleft), RMul(split[2], scale_bottomleft)>>,
                    <<RAdd(RMul(split[1], scale_bottomleft), buf),
                      RAdd(RMul(bottom_right[2], scale_bottomleft), buf)>>)]

\* A viewer keeps, instead of the three rectangles, what they were last
\* computed from: the split position on the widget (layoutdriving_max, also
\* the maximum size of the layout-driving view) and the mapping of the main
\* view at that moment (split_mapping).  pane_rects computes the rectangles.
pane_rects(vw) ==
    split_rects(vw.split_mapping, vw.layoutdriving_max, vw.width, vw.height,
                vw.topright_zoom_adjust, vw.bottomright_zoom_adjust,
                vw.bottomleft_zoom_adjust)

\* SplitView.update_split with the mouse position on the widget
SplitView_update_split(vw, pos) ==
    [vw EXCEPT !.last_updated_point_of_split_on_scene_main =
                   mapToScene(vw, pos[1] + 1, pos[2] + 1),
               !.layoutdriving_max = WidgetPointClamped(<<pos[1] + 1, pos[2] + 1>>),
               !.split_mapping = Mapping(vw)]

\* a refresh that caches the point it has just used
refresh_split_RecachingPoint(vw) ==
    [vw EXCEPT !.last_updated_point_of_split_on_scene_main =
                   mapToScene(vw,
                       WidgetPointClamped(
                           mapFromScene(vw, vw.last_updated_point_of_split_on_scene_main))[1],
                       WidgetPointClamped(
                           mapFromScene(vw, vw.last_updated_point_of_split_on_scene_main))[2]),
               !.layoutdriving_max =
                   WidgetPointClamped(
                       mapFromScene(vw, vw.last_updated_point_of_split_on_scene_main)),
               !.split_mapping = Mapping(vw)]

refresh_split_based_on_last_updated_point_of_split_on_scene_main(vw) ==
    [vw EXCEPT !.layoutdriving_max =
                   WidgetPointClamped(
                       mapFromScene(vw, vw.last_updated_point_of_split_on_scene_main)),
               !.split_mapping = Mapping(vw)]

\* SplitView.set_split: the widget point handed to update_split
set_split_point(vw, x_percent, y_percent, percent_of_visible) ==
    IF percent_of_visible
    THEN <<Trunc(RMul(x_percent, RI(vw.width))), Trunc(RMul(y_percent, RI(vw.height)))>>
    ELSE mapFromScene(vw, <<RMul(x_percent, RI(vw.imageWidth)),
                            RMul(y_percent, RI(vw.imageHeight))>>)

\* EventTrackerSplitBypassDeadzone.limit_mouse_position_to_within_widget_bounds
limit_mouse_position_to_within_widget_bounds(pos, width, height) ==
    <<Max(Min(pos[1], width), 0), Max(Min(pos[2], height), 0)>>

----------------------------------------------------------------------------
(* The main window and its windows: w = [views, main, ghost, cursor] *)

\* A pixmap is the sequence of some of its premultiplied channel values
\* (0..255); the null pixmap is the empty sequence.  The pixmap of a file
\* of the given size:
QPixmap(width, height) ==
    IF width = 0 \/ height = 0 THEN <<>>
    ELSE <<255, (3 * width) % 256, height % 256, 1, 0>>

\* qt_div_255
qt_div_255(x) == (x + (x \div 256) + 128) \div 256

\* QPainter.drawPixmap with opacity percent/100 onto a transparent pixmap:
\* the raster engine multiplies every channel by its integer opacity,
\* qRound(opacity * 256)
intOpacity(percent) == (2 * percent * 256 + 100) \div 200

drawn_channel(c, percent) ==
    IF intOpacity(percent) = 256 THEN c
    ELSE qt_div_255(c * ((intOpacity(percent) * 255) \div 256))

\* lines 942-947: pixmap_to_be_transparent after painter.end()
pixmap_to_be_transparent(original, percent) ==
    [i \in 1..Len(original) |-> drawn_channel(original[i], percent)]

\* an opacity setter that paints from the pixmap on display
set_opacity_base_FromDisplayed(vw, percent) ==
    [vw EXCEPT !.opacity_base = percent,
               !.pixmapItem_main_topleft = pixmap_to_be_transparent(@, percent)]

\* SplitView.set_opacity_base
set_opacity_base(vw, percent) ==
    [vw EXCEPT !.opacity_base = percent,
               !.pixmapItem_main_topleft =
                   pixmap_to_be_transparent(vw.pixmap_base_original, percent)]

\* an overlay setter that paints without asking whether the pane exists
set_opacity_topright_WithoutExistsCheck(vw, percent) ==
    [vw EXCEPT !.opacity_topright = percent,
               !.pixmapItem_topright =
                   pixmap_to_be_transparent(vw.pixmap_topright_original, percent)]

\* SplitView.set_opacity_topright
set_opacity_topright(vw, percent) ==
    IF ~vw.pixmap_topright_exists THEN [vw EXCEPT !.opacity_topright = 100]
    ELSE [vw EXCEPT !.opacity_topright = percent,
                    !.pixmapItem_topright =
                        pixmap_to_be_transparent(vw.pixmap_topright_original, percent)]

\* SplitView.set_opacity_bottomleft
set_opacity_bottomleft(vw, percent) ==
    IF ~vw.pixmap_bottomleft_exists THEN [vw EXCEPT !.opacity_bottomleft = 100]
    ELSE [vw EXCEPT !.opacity_bottomleft = percent,
                    !.pixmapItem_bottomleft =
                        pixmap_to_be_transparent(vw.pixmap_bottomleft_original, percent)]

Closed ==
    [open |-> FALSE, imageWidth |-> 0, imageHeight |-> 0, width |-> 0, height |-> 0,
     zoomFactor |-> RI(1), transform |-> RI(1),
     hmin |-> 0, hmax |-> 0, hvalue |-> 0, vmin |-> 0, vmax |-> 0, vvalue |-> 0,
     sceneRect |-> <<RI(0), RI(0), RI(0), RI(0)>>,
     split_locked |-> FALSE,
     last_updated_point_of_split_on_scene_main |-> <<RI(0), RI(0)>>,
     layoutdriving_max |-> <<0, 0>>,
     split_mapping |-> [zoomFactor |-> RI(1), hvalue |-> 0, vvalue |-> 0],
     topright_width |-> 0, topright_height |-> 0,
     topright_zoom_adjust |-> RI(1), bottomright_zoom_adjust |-> RI(1),
     bottomleft_zoom_adjust |-> RI(1),
     topright_m11 |-> RI(1), bottomright_m11 |-> RI(1), bottomleft_m11 |-> RI(1),
     pixmap_base_original |-> <<>>, pixmapItem_main_topleft |-> <<>>, opacity_base |-> 100,
     pixmap_topright_exists |-> FALSE, pixmap_topright_original |-> <<>>,
     pixmapItem_topright |-> <<>>, opacity_topright |-> 100,
     pixmap_bottomleft_exists |-> FALSE, pixmap_bottomleft_original |-> <<>>,
     pixmapItem_bottomleft |-> <<>>, opacity_bottomleft |-> 100,
     sync_this_zoom |-> FALSE, sync_this_pan |-> FALSE]

\* the adjustment under pixel-for-pixel instead of box
zoom_adjust_Pixel(img, width, height) ==
    determineSyncAdjustmentFactor("pixel", determineSyncSenderDimension(img[1], img[2], "pixel"),
                                  width, height)

\* the longest side of the overlay over that of the main pixmap, without the
\* test for an absent overlay
zoom_adjust_OverlayOverMain(img, width, height) ==
    R(Max(width, height), Max(img[1], img[2]))

\* SplitView.__init__ lines 321-348: adjustment of an overlay to the main pixmap
zoom_adjust(img, width, height) ==
    determineSyncAdjustmentFactor("box", determineSyncSenderDimension(img[1], img[2], "box"),
                                  width, height)

\* SplitView.__init__ lines 74-189: the pixmaps are kept as originals and put
\* on display through the opacity setters at 100
SplitView_pixmaps(vw, img) ==
    set_opacity_base(
        set_opacity_bottomleft(
            set_opacity_topright(
                [vw EXCEPT !.pixmapItem_main_topleft = QPixmap(img[1], img[2]),
                           !.pixmap_base_original = QPixmap(img[1], img[2]),
                           !.pixmap_topright_exists = (img[3] # 0 /\ img[4] # 0),
                           !.pixmap_topright_original = QPixmap(img[3], img[4]),
                           !.pixmap_bottomleft_exists = FALSE,
                           !.pixmap_bottomleft_original = QPixmap(0, 0)],
                100),
            100),
        100)

\* SplitViewMdiChild.__init__ (with SplitView.__init__), shown at the window size
SplitViewMdiChild(img) ==
  SplitView_pixmaps(
    [Closed EXCEPT
       !.open = TRUE, !.imageWidth = img[1], !.imageHeight = img[2],
       !.width = WindowWidth, !.height = WindowHeight,
       !.split_locked = FALSE,
       !.topright_width = img[3], !.topright_height = img[4],
       !.topright_zoom_adjust = zoom_adjust(img, img[3], img[4]),
       !.bottomright_zoom_adjust = zoom_adjust(img, 0, 0),
       !.bottomleft_zoom_adjust = zoom_adjust(img, 0, 0),
       !.sync_this_zoom = TRUE, !.sync_this_pan = TRUE],
    img)

\* per-event trace, cleared when a handler starts
Ghost(event, sender, pos, locked_before) ==
    [event |-> event, sender |-> sender, pos |-> pos,
     request |-> <<<<0, 1>>, <<0, 1>>>>, notches |-> 0, locked_before |-> locked_before,
     opacity_before |-> <<100, 100>>, pane |-> "", value |-> 100,
     suppressed |-> FALSE, pass_depth |-> 0, max_pass_depth |-> 0,
     slider_notifications |-> <<>>,
     pan_sender |-> 0, pan_receivers |-> {},
     zoom_sender |-> 0, zoom_receivers |-> {}]

RECURSIVE subWindowListFrom(_, _)
subWindowListFrom(w, v) ==
    IF v > MaxViewers THEN <<>>
    ELSE (IF w.views[v].open THEN <<v>> ELSE <<>>) \o subWindowListFrom(w, v + 1)

subWindowList(w) == subWindowListFrom(w, 1)

ScrollBars(vw) == <<vw.hmin, vw.hmax, vw.hvalue, vw.vmin, vw.vmax, vw.vvalue>>

\* a signal of window v reaches its slots in connection order
RECURSIVE emit(_, _)

RECURSIVE refresh_windows(_, _)
refresh_windows(w, windows) ==
    IF windows = <<>> THEN w
    ELSE refresh_windows(
             [w EXCEPT !.views[Head(windows)] =
                           refresh_split_based_on_last_updated_point_of_split_on_scene_main(@)],
             Tail(windows))

\* a refresh that passes over the windows with a locked split
on_scrollChanged_UnlockedOnly(w) ==
    refresh_windows(w, SelectSeq(subWindowList(w), LAMBDA v : ~w.views[v].split_locked))

\* MultiViewMainWindow.on_scrollChanged
on_scrollChanged(w) == refresh_windows(w, subWindowList(w))

\* install a new state of the main view of v; its scroll bars signal a
\* change of value or range (SynchableGraphicsView.connectSbarSignals)
SetView(w, v, nv) ==
    IF ScrollBars(w.views[v]) # ScrollBars(nv)
    THEN emit([w EXCEPT !.views[v] = nv], <<"scrollChanged", v>>)
    ELSE [w EXCEPT !.views[v] = nv]

\* SplitView.resize_scene
resize_scene(w, v) ==
    SetView(w, v, recalculateContentSize([w.views[v] EXCEPT !.sceneRect = scene_rect(w.views[v])]))

\* SplitView.resizeEvent: the layout has given the main view its new size
\* (QGraphicsView.resizeEvent recalculates the scroll bar ranges), then
\* resize_scene runs
resizeEvent(w, v, size) ==
    resize_scene(
        SetView(w, v,
                recalculateContentSize([w.views[v] EXCEPT !.width = size[1],
                                                          !.height = size[2]])),
        v)

\* synchPan, lines 1663-1670: one receiver
synchPanReceiver(w, window, newState) ==
    resize_scene(
        SetView([w EXCEPT !.ghost.pan_receivers = @ \cup {window}], window,
                setScrollState(w.views[window], newState)),
        window)

RECURSIVE synchPanWindows_IgnoringFlag(_, _, _, _)
synchPanWindows_IgnoringFlag(w, windows, changedWindow, newState) ==
    IF windows = <<>> THEN w
    ELSE synchPanWindows_IgnoringFlag(
             IF Head(windows) # changedWindow
             THEN synchPanReceiver(w, Head(windows), newState)
             ELSE w,
             Tail(windows), changedWindow, newState)

\* the loop of synchPan over subWindowList
RECURSIVE synchPanWindows(_, _, _, _)
synchPanWindows(w, windows, changedWindow, newState) ==
    IF windows = <<>> THEN w
    ELSE synchPanWindows(
             IF Head(windows) # changedWindow /\ w.views[Head(windows)].sync_this_pan
             THEN synchPanReceiver(w, Head(windows), newState)
             ELSE w,
             Tail(windows), changedWindow, newState)

PassBegun(w, fromViewer) ==
    [w EXCEPT !.main.handlingScrollChangedSignal = TRUE,
              !.ghost.pass_depth = @ + 1,
              !.ghost.max_pass_depth = Max(@, w.ghost.pass_depth + 1),
              !.ghost.pan_sender = fromViewer]

PassEnded(w) ==
    [w EXCEPT !.main.handlingScrollChangedSignal = FALSE,
              !.ghost.pass_depth = @ - 1]

synchPan_FlagNotCleared(w, fromViewer) ==
    IF fromViewer = 0 THEN w
    ELSE IF w.main.handlingScrollChangedSignal
         THEN [w EXCEPT !.ghost.suppressed = TRUE]
    ELSE IF fromViewer # w.main.activeSubWindow THEN w
    ELSE [synchPanWindows(PassBegun(w, fromViewer), subWindowList(w), fromViewer,
                          scrollState(w.views[fromViewer]))
             EXCEPT !.ghost.pass_depth = @ - 1]

\* synchPan without the test of line 1658: any window may begin a pass
synchPan_FromAnyWindow(w, fromViewer) ==
    IF fromViewer = 0 THEN w
    ELSE IF w.main.handlingScrollChangedSignal
         THEN [w EXCEPT !.ghost.suppressed = TRUE]
    ELSE PassEnded(synchPanWindows(PassBegun(w, fromViewer), subWindowList(w), fromViewer,
                                   scrollState(w.views[fromViewer])))

\* MultiViewMainWindow.synchPan
synchPan(w, fromViewer) ==
    IF fromViewer = 0 THEN w
    ELSE IF w.main.handlingScrollChangedSignal
         THEN [w EXCEPT !.ghost.suppressed = TRUE]
    ELSE IF fromViewer # w.main.activeSubWindow THEN w
    ELSE PassEnded(synchPanWindows(PassBegun(w, fromViewer), subWindowList(w), fromViewer,
                                   scrollState(w.views[fromViewer])))

\* MultiViewMainWindow.panChanged
panChanged(w, mdiChild) ==
    IF w.main.synchPanAct THEN synchPan(w, mdiChild) ELSE w

\* MultiViewMainWindow.refreshPan
refreshPan(w) ==
    IF w.main.activeSubWindow # 0 THEN synchPan(w, w.main.activeSubWindow) ELSE w

\* QGraphicsView.scale(s, s) on an overlay view of horizontal scale m11
QGraphicsView_scale(m11, s) == RMul(m11, s)

\* SplitView.zoomFactor (setter), lines 1159-1165: the overlay views
scale_overlays(vw, newZoomFactor) ==
    [vw EXCEPT
       !.topright_m11 =
           QGraphicsView_scale(@, RDiv(RMul(newZoomFactor, vw.topright_zoom_adjust), @)),
       !.bottomright_m11 =
           QGraphicsView_scale(@, RDiv(RMul(newZoomFactor, vw.bottomright_zoom_adjust), @)),
       !.bottomleft_m11 =
           QGraphicsView_scale(@, RDiv(RMul(newZoomFactor, vw.bottomleft_zoom_adjust), @))]

SplitView_setZoomFactor_MainViewOnly(w, v, newZoomFactor) ==
    SetView(w, v, setZoomFactor(w.views[v], newZoomFactor))

\* SplitView.zoomFactor (setter): the main view first, then the overlays
SplitView_setZoomFactor(w, v, newZoomFactor) ==
    [SetView(w, v, setZoomFactor(w.views[v], newZoomFactor))
        EXCEPT !.views[v] = scale_overlays(@, newZoomFactor)]

SplitViewMdiChild_update_split_IgnoringLock(w, v, pos, ignore_lock) ==
    [w EXCEPT !.views[v] = SplitView_update_split(@, pos)]

\* SplitViewMdiChild.update_split: the lock is checked before the split moves
SplitViewMdiChild_update_split(w, v, pos, ignore_lock) ==
    IF ~w.views[v].split_locked \/ ignore_lock
    THEN [w EXCEPT !.views[v] = SplitView_update_split(@, pos)]
    ELSE w

\* SplitView.on_transformChanged; update_split() reads the cursor position
on_transformChanged(w, v) ==
    SplitViewMdiChild_update_split(resize_scene(w, v), v, w.cursor, FALSE)

\* synchZoom, lines 1688-1700: one receiver
synchZoomReceiver(w, window, newZoomFactor, sync_by, sender_dimension) ==
    resize_scene(
        SplitView_setZoomFactor(
            [w EXCEPT !.ghost.zoom_receivers = @ \cup {window}], window,
            RMul(newZoomFactor,
                 determineSyncAdjustmentFactor(sync_by, sender_dimension,
                     w.views[window].imageWidth, w.views[window].imageHeight))),
        window)

\* the loop of synchZoom over subWindowList
RECURSIVE synchZoomWindows(_, _, _, _, _, _)
synchZoomWindows(w, windows, changedWindow, newZoomFactor, sync_by, sender_dimension) ==
    IF windows = <<>> THEN w
    ELSE synchZoomWindows(
             IF Head(windows) # changedWindow /\ w.views[Head(windows)].sync_this_zoom
             THEN synchZoomReceiver(w, Head(windows), newZoomFactor, sync_by, sender_dimension)
             ELSE w,
             Tail(windows), changedWindow, newZoomFactor, sync_by, sender_dimension)

\* MultiViewMainWindow.synchZoom
synchZoom(w, fromViewer) ==
    IF fromViewer = 0 THEN w
    ELSE refreshPan(
             synchZoomWindows([w EXCEPT !.ghost.zoom_sender = fromViewer],
                 subWindowList(w), fromViewer, w.views[fromViewer].zoomFactor,
                 w.main.sync_zoom_by,
                 determineSyncSenderDimension(w.views[fromViewer].imageWidth,
                     w.views[fromViewer].imageHeight, w.main.sync_zoom_by)))

\* MultiViewMainWindow.refreshZoom
refreshZoom(w) ==
    IF w.main.activeSubWindow # 0 THEN synchZoom(w, w.main.activeSubWindow) ELSE w

\* MultiViewMainWindow.zoomChanged
zoomChanged(w, mdiChild) ==
    IF w.main.synchZoomAct THEN synchZoom(w, mdiChild) ELSE w

\* createMdiChild and SplitView.__init__: the connections of a window's signals
emit(w, signal) ==
    CASE signal[1] = "scrollChanged" ->
             on_scrollChanged(panChanged(w, signal[2]))
      [] signal[1] = "transformChanged" ->
             on_transformChanged(zoomChanged(w, signal[2]), signal[2])

\* SynchableGraphicsView.checkTransformChanged
checkTransformChanged(w, v) ==
    IF different(w.views[v].zoomFactor, w.views[v].transform)
    THEN emit([w EXCEPT !.views[v].transform = w.views[v].zoomFactor],
              <<"transformChanged", v>>)
    ELSE w

\* SplitView.scaleImage
scaleImage(w, v, factor, combine) ==
    checkTransformChanged(
        SplitView_setZoomFactor(w, v,
            IF combine THEN RMul(w.views[v].zoomFactor, factor) ELSE factor),
        v)

zoomIn(w, v) == scaleImage(w, v, zoomFactorDelta, TRUE)

zoomOut(w, v) == scaleImage(w, v, RDiv(RI(1), zoomFactorDelta), TRUE)

actualSize(w, v) == scaleImage(w, v, RI(1), FALSE)

\* SynchableGraphicsView.centerView on the main view of v
SplitView_centerView(w, v) == SetView(w, v, centerView(w.views[v]))

fitWidth(w, v) ==
    SplitView_centerView(
        scaleImage(w, v, R(w.views[v].width - 2 * padding_margin, w.views[v].imageWidth), FALSE),
        v)

fitHeight(w, v) ==
    SplitView_centerView(
        scaleImage(w, v, R(w.views[v].height - 2 * padding_margin, w.views[v].imageHeight), FALSE),
        v)

\* SplitView.fitToWindow; it ends by emitting SplitView.transformChanged,
\* which is connected to zoomChanged
fitToWindow(w, v) ==
    zoomChanged(
        IF (w.views[v].width - 2 * padding_margin) * w.views[v].imageHeight
               > w.views[v].imageWidth * (w.views[v].height - 2 * padding_margin)
        THEN fitHeight(w, v)
        ELSE fitWidth(w, v),
        v)

RECURSIVE RPow(_, _)
RPow(a, n) ==
    IF n = 0 THEN RI(1)
    ELSE IF n < 0 THEN RDiv(RI(1), RPow(a, -n))
    ELSE RMul(a, RPow(a, n - 1))

\* SplitView.handleWheelNotches, for whole notches
handleWheelNotches(w, v, notches) == scaleImage(w, v, RPow(zoomFactorDelta, notches), TRUE)

----------------------------------------------------------------------------
(* Split lock and split positioning of the main window *)

RECURSIVE lock_split(_)
RECURSIVE unlock_split(_)

\* SplitViewManager.on_toggle_lock_split_pushbutton
on_toggle_lock_split_pushbutton(w, boolean) ==
    IF boolean THEN lock_split(w) ELSE unlock_split(w)

\* lock_split_pushbutton.setChecked: toggled is emitted when the state changes
setChecked(w, boolean) ==
    IF w.main.lock_split_pushbutton = boolean THEN w
    ELSE on_toggle_lock_split_pushbutton(
             [w EXCEPT !.main.lock_split_pushbutton = boolean], boolean)

lock_split_AllWindows(w) ==
    setChecked([w EXCEPT !.views = [v \in Viewers |->
                                      IF w.views[v].open
                                      THEN [w.views[v] EXCEPT !.split_locked = TRUE]
                                      ELSE w.views[v]]],
               TRUE)

\* MultiViewMainWindow.lock_split
lock_split(w) ==
    LET a == w.main.activeSubWindow
        w1 == IF a # 0 THEN [w EXCEPT !.views[a].split_locked = TRUE] ELSE w
    IN  setChecked(w1, TRUE)

\* MultiViewMainWindow.unlock_split
unlock_split(w) ==
    LET a == w.main.activeSubWindow
        w1 == IF a # 0 THEN [w EXCEPT !.views[a].split_locked = FALSE] ELSE w
    IN  setChecked(w1, FALSE)

\* MultiViewMainWindow.shortcut_shift_x_was_activated_on_mdichild
shortcut_shift_x_was_activated_on_mdichild(w) ==
    setChecked(w, w.views[w.main.activeSubWindow].split_locked)

\* SplitViewMdiChild.toggle_lock_split
toggle_lock_split(w, v) ==
    shortcut_shift_x_was_activated_on_mdichild(
        [w EXCEPT !.views[v].split_locked = ~w.views[v].split_locked])

\* MultiViewMainWindow.update_mdi_buttons
update_mdi_buttons(w, window) ==
    IF window = 0 THEN setChecked(w, FALSE)
    ELSE setChecked(w, w.views[w.main.activeSubWindow].split_locked)

\* SplitView.set_split
SplitView_set_split(w, v, x_percent, y_percent, ignore_lock, percent_of_visible) ==
    SplitViewMdiChild_update_split(w, v,
        set_split_point(w.views[v], x_percent, y_percent, percent_of_visible), ignore_lock)

RECURSIVE set_split_windows(_, _, _, _, _, _)
set_split_windows(w, windows, x_percent, y_percent, ignore_lock, percent_of_visible) ==
    IF windows = <<>> THEN w
    ELSE set_split_windows(
             SplitView_set_split(w, Head(windows), x_percent, y_percent,
                                 ignore_lock, percent_of_visible),
             Tail(windows), x_percent, y_percent, ignore_lock, percent_of_visible)

set_split_all(w, apply_to_all, x_percent, y_percent, ignore_lock, percent_of_visible) ==
    IF apply_to_all
    THEN set_split_windows(w, subWindowList(w), x_percent, y_percent,
                           ignore_lock, percent_of_visible)
    ELSE w

\* MultiViewMainWindow.set_split
set_split(w, x_percent, y_percent, apply_to_all, ignore_lock, percent_of_visible) ==
    set_split_all(
        IF w.main.activeSubWindow # 0
        THEN SplitView_set_split(w, w.main.activeSubWindow, x_percent, y_percent,
                                 ignore_lock, percent_of_visible)
        ELSE w,
        apply_to_all, x_percent, y_percent, ignore_lock, percent_of_visible)

set_split_from_slider(w) == set_split(w, <<1, 2>>, <<1, 2>>, FALSE, FALSE, TRUE)

\* MultiViewMainWindow.on_slider_opacity_base_changed
on_slider_opacity_base_changed(w, value) ==
    IF w.main.activeSubWindow = 0 THEN w
    ELSE [(IF ~w.views[w.main.activeSubWindow].split_locked
           THEN set_split_from_slider(w) ELSE w)
             EXCEPT !.views[w.main.activeSubWindow] = set_opacity_base(@, value)]

\* MultiViewMainWindow.on_slider_opacity_topright_changed
on_slider_opacity_topright_changed(w, value) ==
    IF w.main.activeSubWindow = 0 THEN w
    ELSE [(IF ~w.views[w.main.activeSubWindow].split_locked
           THEN set_split_from_slider(w) ELSE w)
             EXCEPT !.views[w.main.activeSubWindow] = set_opacity_topright(@, value)]

\* MultiViewMainWindow.on_slider_opacity_bottomleft_changed
on_slider_opacity_bottomleft_changed(w, value) ==
    IF w.main.activeSubWindow = 0 THEN w
    ELSE [(IF ~w.views[w.main.activeSubWindow].split_locked
           THEN set_split_from_slider(w) ELSE w)
             EXCEPT !.views[w.main.activeSubWindow] = set_opacity_bottomleft(@, value)]

\* a hover preview that overrides the lock
set_split_from_manager_IgnoringLock(w, x_percent, y_percent) ==
    set_split(w, x_percent, y_percent, FALSE, TRUE, FALSE)

\* MultiViewMainWindow.set_split_from_manager
set_split_from_manager(w, x_percent, y_percent) ==
    set_split(w, x_percent, y_percent, FALSE, FALSE, FALSE)

set_and_lock_split_from_manager_RespectingLock(w, x_percent, y_percent) ==
    lock_split(set_split(w, x_percent, y_percent, FALSE, FALSE, FALSE))

\* MultiViewMainWindow.set_and_lock_split_from_manager
set_and_lock_split_from_manager(w, x_percent, y_percent) ==
    lock_split(set_split(w, x_percent, y_percent, FALSE, TRUE, FALSE))

\* MultiViewMainWindow.update_split (mouse over an interface panel)
MainWindow_update_split(w) ==
    LET a == w.main.activeSubWindow
    IN  IF a # 0 THEN SplitViewMdiChild_update_split(w, a, w.cursor, FALSE) ELSE w

\* SplitView.on_positionChanged (mouse over the viewer)
on_positionChanged(w, v, pos) == SplitViewMdiChild_update_split(w, v, pos, FALSE)

\* SplitView.update_split_given_global (mouse over a border deadzone)
update_split_given_global(w, v, pos_global) ==
    SplitViewMdiChild_update_split(w, v, pos_global, FALSE)

----------------------------------------------------------------------------
(* State, events *)

\* CustomQGraphicsScene.__init__ (ruler settings) with no item in the scene;
\* raised is the exception the last handler left uncaught, last the last
\* handler with the unit it was given
\* no conversion dialog is open
NoDialog == [open |-> FALSE]

\* no annotation file was written
NoFile == [exists |-> FALSE]

\* the application is up; how it was started is of no account
Running == [shown |-> TRUE]

CustomQGraphicsScene ==
    [px_conversion |-> RI(1), unit_conversion |-> RI(1), px_per_unit |-> RI(1),
     px_per_unit_conversion_set |-> FALSE, relative_origin_position |-> "bottomleft",
     items |-> <<>>, raised |-> "", box |-> "",
     last |-> [event |-> "init", unit |-> ""]]

CalcIdle ==
    [stage |-> "idle", sync_by |-> "box", sender_width |-> 0, sender_height |-> 0,
     receiver_width |-> 0, receiver_height |-> 0,
     sender_dimension |-> None, adjustment_factor |-> None]

\* the sliders of SlidersOpacitySplitViews that have a pane in the model
Panes == {"base", "topright", "bottomleft"}

\* SlidersOpacitySplitViews.__init__: each SliderDeluxe holds a slider and a
\* spinbox that follow each other (value 100), all of them disabled
SlidersOpacitySplitViews ==
    [value |-> [pane \in Panes |-> 100], enabled |-> [pane \in Panes |-> FALSE]]

\* MultiViewMainWindow.__init__ and readSettings: no window, both syncs on
MultiViewMainWindow ==
    [activeSubWindow |-> 0, synchZoomAct |-> TRUE, synchPanAct |-> TRUE,
     handlingScrollChangedSignal |-> FALSE, sync_zoom_by |-> "box",
     lock_split_pushbutton |-> FALSE,
     sliders_opacity_splitviews |-> SlidersOpacitySplitViews]

Init ==
    /\ views = [v \in Viewers |-> Closed]
    /\ main = MultiViewMainWindow
    /\ ghost = Ghost("init", 0, <<0, 0>>, {})
    /\ steps = MaxEvents
    /\ calc = CalcIdle
    /\ scene = CustomQGraphicsScene
    /\ dialog = NoDialog
    /\ csv = NoFile
    /\ app = Running

PointerEvents == {"mouse_viewer", "mouse_deadzone", "mouse_interface"}

\* the program state a handler starts in; cursor is the mouse position on the
\* widget of the window concerned
World(event, sender, cursor) ==
    [views |-> views, main |-> main,
     ghost |-> Ghost(event, sender, IF event \in PointerEvents THEN cursor ELSE <<0, 0>>,
                     {v \in Viewers : views[v].split_locked}),
     cursor |-> cursor]

\* the button of the manager that was entered or clicked, or the drag target
Requested(w, xy) == [w EXCEPT !.ghost.request = xy]

Notched(w, notches) == [w EXCEPT !.ghost.notches = notches]

\* the handler has returned to the event loop
Commit(w) ==
    /\ views' = w.views
    /\ main' = w.main
    /\ ghost' = w.ghost
    /\ UNCHANGED <<calc, scene, dialog, csv, app>>

\* the opacities of the active window when a slider starts to move
OpacityBefore(w) ==
    IF w.main.activeSubWindow = 0 THEN w
    ELSE [w EXCEPT !.ghost.opacity_before =
                       <<w.views[w.main.activeSubWindow].opacity_base,
                         w.views[w.main.activeSubWindow].opacity_topright>>]

\* the slider that moved and the value it moved to
SliderInput(w, pane, value) ==
    [OpacityBefore(w) EXCEPT !.ghost.pane = pane, !.ghost.value = value]

\* steps counts the user events still to be handled
Step ==
    /\ steps > 0
    /\ steps' = steps - 1

InsideWidget(pos) ==
    /\ 0 <= pos[1] /\ pos[1] < WindowWidth
    /\ 0 <= pos[2] /\ pos[2] < WindowHeight

\* SliderDeluxe.was_changed_slider_value, passed on by SlidersOpacitySplitViews
\* to the slot of the main window connected to the slider of the pane
was_changed_slider_value(w, pane, value) ==
    LET noted == [w EXCEPT !.ghost.slider_notifications = Append(@, pane)]
    IN  IF pane = "base" THEN on_slider_opacity_base_changed(noted, value)
        ELSE IF pane = "topright" THEN on_slider_opacity_topright_changed(noted, value)
        ELSE on_slider_opacity_bottomleft_changed(noted, value)

\* SliderDeluxe.on_slider_trigger: actionTriggered, the position is already
\* the new one
on_slider_trigger(w, pane, sliderPosition) ==
    was_changed_slider_value(w, pane, sliderPosition)

\* SliderDeluxe.on_spinbox_change: the slider has its new value by now
on_spinbox_change(w, pane) ==
    was_changed_slider_value(w, pane, w.main.sliders_opacity_splitviews.value[pane])

\* QSlider.setValue without the connection of the spinbox to on_spinbox_change
QSlider_setValue_Silent(w, pane, value) ==
    [w EXCEPT !.main.sliders_opacity_splitviews.value[pane] = value]

\* QSlider.setValue: a new value is signalled with valueChanged, which is
\* connected to on_slider_changed (the preview icon) and to spinbox.setValue;
\* the spinbox takes the value and signals its own valueChanged, connected to
\* slider.setValue (nothing to do) and to on_spinbox_change.  The same value
\* signals nothing.
QSlider_setValue(w, pane, value) ==
    IF w.main.sliders_opacity_splitviews.value[pane] = value THEN w
    ELSE on_spinbox_change(
             [w EXCEPT !.main.sliders_opacity_splitviews.value[pane] = value], pane)

\* SliderDeluxe.set_value
SliderDeluxe_set_value(w, pane, value) == QSlider_setValue(w, pane, value)

\* the values of the top-right and bottom-left sliders taken for each other
SlidersOpacitySplitViews_update_sliders_Swapped(w, opacity_base, opacity_topright, opacity_bottomleft) ==
    SliderDeluxe_set_value(
        SliderDeluxe_set_value(
            SliderDeluxe_set_value(w, "base", opacity_base),
            "topright", opacity_bottomleft),
        "bottomleft", opacity_topright)

\* SlidersOpacitySplitViews.update_sliders (the bottom-right slider has no
\* pane in the model and stays at 100)
SlidersOpacitySplitViews_update_sliders(w, opacity_base, opacity_topright, opacity_bottomleft) ==
    SliderDeluxe_set_value(
        SliderDeluxe_set_value(
            SliderDeluxe_set_value(w, "base", opacity_base),
            "topright", opacity_topright),
        "bottomleft", opacity_bottomleft)

\* SlidersOpacitySplitViews.set_enabled
set_enabled(w, boolean_base, boolean_topright, boolean_bottomleft) ==
    [w EXCEPT !.main.sliders_opacity_splitviews.enabled =
                  [pane \in Panes |->
                       IF pane = "base" THEN boolean_base
                       ELSE IF pane = "topright" THEN boolean_topright
                       ELSE boolean_bottomleft]]

\* SlidersOpacitySplitViews.reset_sliders
reset_sliders(w) ==
    set_enabled(SlidersOpacitySplitViews_update_sliders(w, 100, 100, 100),
                FALSE, FALSE, FALSE)

\* MultiViewMainWindow.update_sliders, a slot of subWindowActivated
update_sliders(w, window) ==
    IF window = 0 THEN reset_sliders(w)
    ELSE LET child == w.views[w.main.activeSubWindow]
         IN  SlidersOpacitySplitViews_update_sliders(
                 set_enabled(w, TRUE, child.pixmap_topright_exists,
                             child.pixmap_bottomleft_exists),
                 child.opacity_base, child.opacity_topright, child.opacity_bottomleft)

\* the user moves a slider: actionTriggered reaches on_slider_trigger, then
\* the slider takes the position as its value
QSlider_triggerAction(w, pane, sliderPosition) ==
    QSlider_setValue(on_slider_trigger(w, pane, sliderPosition), pane, sliderPosition)

\* loadFile, lines 944-948: synchronise from the previously active window
loadFile_synchPan(w, activeMdiChild) ==
    IF activeMdiChild # 0 /\ w.main.synchPanAct THEN synchPan(w, activeMdiChild) ELSE w

loadFile_synchZoom(w, activeMdiChild) ==
    IF activeMdiChild # 0 /\ w.main.synchZoomAct THEN synchZoom(w, activeMdiChild) ELSE w

\* createMdiChild, child.show(): the new subwindow is activated
\* (subWindowActivated -> update_sliders, update_mdi_buttons) and sized
\* (resizeEvent -> resize_scene)
loadFile_show(w, v, img) ==
    resize_scene(
        update_mdi_buttons(
            update_sliders([w EXCEPT !.views[v] = SplitViewMdiChild(img),
                                     !.main.activeSubWindow = v], v),
            v),
        v)

\* MultiViewMainWindow.loadFile into the next free window slot
loadFile(v, img, cursor) ==
    /\ ~views[v].open
    /\ \A u \in Viewers : u < v => views[u].open
    /\ Commit(fitToWindow(
                  loadFile_synchZoom(
                      loadFile_synchPan(loadFile_show(World("loadFile", v, cursor), v, img),
                                        main.activeSubWindow),
                      main.activeSubWindow),
                  v))
    /\ UNCHANGED steps

\* the user activates another subwindow (subWindowActivated -> update_sliders,
\* update_mdi_buttons)
subWindowActivated(v) ==
    /\ views[v].open
    /\ main.activeSubWindow # v
    /\ Step
    /\ Commit(update_mdi_buttons(
                  update_sliders(
                      [World("subWindowActivated", v, <<0, 0>>)
                           EXCEPT !.main.activeSubWindow = v],
                      v),
                  v))

\* mouse moved over viewer v
MouseMoveOverViewer(v, pos) ==
    /\ views[v].open
    /\ Step
    /\ Commit(on_positionChanged(World("mouse_viewer", v, pos), v, pos))

\* mouse moved over the top border deadzone of viewer v
MouseMoveOverDeadzone(v, pos) ==
    /\ views[v].open
    /\ Step
    /\ Commit(update_split_given_global(
                  World("mouse_deadzone", v,
                        limit_mouse_position_to_within_widget_bounds(pos, views[v].width,
                                                                     px_deadzone)),
                  v,
                  limit_mouse_position_to_within_widget_bounds(pos, views[v].width, px_deadzone)))

\* mouse moved over an interface panel (creator, sliders)
MouseMoveOverInterface(cursor) ==
    /\ Step
    /\ Commit(MainWindow_update_split(World("mouse_interface", main.activeSubWindow, cursor)))

\* mouse entered a split shortcut button of the manager
HoverSplitShortcut(xy) ==
    /\ Step
    /\ Commit(set_split_from_manager(
                  Requested(World("hover_shortcut", main.activeSubWindow, <<0, 0>>), xy),
                  xy[1], xy[2]))

\* a split shortcut button was clicked
ClickSplitShortcut(xy) ==
    /\ Step
    /\ Commit(set_and_lock_split_from_manager(
                  Requested(World("click_shortcut", main.activeSubWindow, <<0, 0>>), xy),
                  xy[1], xy[2]))

\* an opacity slider was moved by the user (an enabled slider), or the slot
\* of the main window was reached with a request for a pane whose slider is
\* disabled
SliderMoved(pane, value) ==
    /\ Step
    /\ pane \in Panes
    /\ LET w == SliderInput(World("slider", main.activeSubWindow, <<0, 0>>), pane, value)
       IN  Commit(IF main.sliders_opacity_splitviews.enabled[pane]
                  THEN QSlider_triggerAction(w, pane, value)
                  ELSE was_changed_slider_value(w, pane, value))

\* the lock button was clicked
ClickLockButton ==
    /\ Step
    /\ Commit(on_toggle_lock_split_pushbutton(
                  [World("lock_button", main.activeSubWindow, <<0, 0>>)
                      EXCEPT !.main.lock_split_pushbutton = ~main.lock_split_pushbutton],
                  ~main.lock_split_pushbutton))

\* Shift+X in the subwindow that has the focus
ShortcutShiftX(v) ==
    /\ views[v].open
    /\ main.activeSubWindow = v
    /\ Step
    /\ Commit(toggle_lock_split(World("shift_x", v, <<0, 0>>), v))

\* Zoom In / Zoom Out / Actual Size / Fit Image act on the active window
ZoomIn(cursor) ==
    /\ main.activeSubWindow # 0
    /\ Step
    /\ Commit(zoomIn(World("zoomIn", main.activeSubWindow, cursor), main.activeSubWindow))

ZoomOut(cursor) ==
    /\ main.activeSubWindow # 0
    /\ Step
    /\ Commit(zoomOut(World("zoomOut", main.activeSubWindow, cursor), main.activeSubWindow))

ActualSize(cursor) ==
    /\ main.activeSubWindow # 0
    /\ Step
    /\ Commit(actualSize(World("actualSize", main.activeSubWindow, cursor), main.activeSubWindow))

FitToWindow(cursor) ==
    /\ main.activeSubWindow # 0
    /\ Step
    /\ Commit(fitToWindow(World("fitToWindow", main.activeSubWindow, cursor),
                          main.activeSubWindow))

\* the mouse wheel is turned over viewer v, which need not be the active one
Wheel(v, notches, cursor) ==
    /\ views[v].open
    /\ InsideWidget(cursor)
    /\ Step
    /\ Commit(handleWheelNotches(Notched(World("wheel", v, cursor), notches), v, notches))

PanTarget(lo, hi, fraction) == lo + Trunc(RMul(fraction, RI(hi - lo)))

\* the scroll bars after a drag of the view
Dragged(vw, target) ==
    [vw EXCEPT !.hvalue = PanTarget(vw.hmin, vw.hmax, target[1]),
               !.vvalue = PanTarget(vw.vmin, vw.vmax, target[2])]

\* the view of the active window is dragged: its scroll bars get new values
Pan(target) ==
    /\ main.activeSubWindow # 0
    /\ ScrollBars(views[main.activeSubWindow])
         # ScrollBars(Dragged(views[main.activeSubWindow], target))
    /\ Step
    /\ Commit(SetView(Requested(World("pan", main.activeSubWindow, <<0, 0>>), target),
                      main.activeSubWindow,
                      Dragged(views[main.activeSubWindow], target)))

\* the subwindow of viewer v is given another size
Resize(v, size) ==
    /\ views[v].open
    /\ size # <<views[v].width, views[v].height>>
    /\ Step
    /\ Commit(resizeEvent(World("resize", v, <<0, 0>>), v, size))

\* Synch Pan is checked or unchecked in the menu (toggleSynchPan); checking
\* it with no window open ends in the assert of synchPan and is left out
ToggleSynchPan ==
    /\ main.synchPanAct \/ main.activeSubWindow # 0
    /\ Step
    /\ Commit(IF ~main.synchPanAct
              THEN synchPan([World("toggleSynchPan", main.activeSubWindow, <<0, 0>>)
                                EXCEPT !.main.synchPanAct = TRUE], main.activeSubWindow)
              ELSE [World("toggleSynchPan", main.activeSubWindow, <<0, 0>>)
                       EXCEPT !.main.synchPanAct = FALSE])

\* Synch Zoom is checked or unchecked in the menu (toggleSynchZoom)
ToggleSynchZoom ==
    /\ Step
    /\ Commit(IF ~main.synchZoomAct
              THEN synchZoom([World("toggleSynchZoom", main.activeSubWindow, <<0, 0>>)
                                 EXCEPT !.main.synchZoomAct = TRUE], main.activeSubWindow)
              ELSE [World("toggleSynchZoom", main.activeSubWindow, <<0, 0>>)
                       EXCEPT !.main.synchZoomAct = FALSE])

\* SplitViewMdiChild.sync_this_zoom (setter)
SetSyncThisZoom(v, bool) ==
    /\ views[v].open
    /\ views[v].sync_this_zoom # bool
    /\ Step
    /\ Commit([World("sync_this_zoom", v, <<0, 0>>) EXCEPT !.views[v].sync_this_zoom = bool])

\* SplitViewMdiChild.sync_this_pan (setter)
SetSyncThisPan(v, bool) ==
    /\ views[v].open
    /\ views[v].sync_this_pan # bool
    /\ Step
    /\ Commit([World("sync_this_pan", v, <<0, 0>>) EXCEPT !.views[v].sync_this_pan = bool])

\* MultiViewMainWindow.set_all_sync_zoom_by
set_all_sync_zoom_by(by) ==
    /\ main.activeSubWindow # 0
    /\ main.sync_zoom_by # by
    /\ Step
    /\ Commit(refreshZoom([World("sync_zoom_by", main.activeSubWindow, <<0, 0>>)
                              EXCEPT !.main.sync_zoom_by = by]))

Next ==
    \/ \E v \in Viewers, img \in Images, c \in Positions : loadFile(v, img, c)
    \/ \E v \in Viewers : subWindowActivated(v)
    \/ \E v \in Viewers, pos \in Positions : MouseMoveOverViewer(v, pos)
    \/ \E v \in Viewers, pos \in Positions : MouseMoveOverDeadzone(v, pos)
    \/ \E c \in Positions : MouseMoveOverInterface(c)
    \/ \E xy \in ShortcutPercents : HoverSplitShortcut(xy)
    \/ \E xy \in ShortcutPercents : ClickSplitShortcut(xy)
    \/ \E pane \in {"base", "topright"}, value \in SliderValues : SliderMoved(pane, value)
    \/ ClickLockButton
    \/ \E v \in Viewers : ShortcutShiftX(v)
    \/ \E c \in Positions : ZoomIn(c)
    \/ \E c \in Positions : ZoomOut(c)
    \/ \E c \in Positions : ActualSize(c)
    \/ \E c \in Positions : FitToWindow(c)
    \/ \E v \in Viewers, n \in WheelNotches, c \in Positions : Wheel(v, n, c)
    \/ \E t \in PanTargets : Pan(t)
    \/ \E v \in Viewers, size \in WindowSizes : Resize(v, size)
    \/ ToggleSynchPan
    \/ ToggleSynchZoom
    \/ \E v \in Viewers, b \in BOOLEAN : SetSyncThisZoom(v, b)
    \/ \E v \in Viewers, b \in BOOLEAN : SetSyncThisPan(v, b)
    \/ \E by \in SyncZoomBys : set_all_sync_zoom_by(by)

Spec == Init /\ [][Next]_vars

\* the zoom, pan and synchronisation events alone, one event deeper, with the
\* mouse at rest over the viewer
InitSync ==
    /\ views = [v \in Viewers |-> Closed]
    /\ main = MultiViewMainWindow
    /\ ghost = Ghost("init", 0, <<0, 0>>, {})
    /\ steps = MaxSyncEvents
    /\ calc = CalcIdle
    /\ scene = CustomQGraphicsScene
    /\ dialog = NoDialog
    /\ csv = NoFile
    /\ app = Running

NextSync ==
    \/ \E v \in Viewers, img \in Images : loadFile(v, img, SyncCursor)
    \/ \E v \in Viewers : subWindowActivated(v)
    \/ ZoomIn(SyncCursor)
    \/ ZoomOut(SyncCursor)
    \/ ActualSize(SyncCursor)
    \/ FitToWindow(SyncCursor)
    \/ \E v \in Viewers, n \in WheelNotches : Wheel(v, n, SyncCursor)
    \/ \E t \in PanTargets : Pan(t)
    \/ ToggleSynchPan
    \/ ToggleSynchZoom
    \/ \E v \in Viewers, b \in BOOLEAN : SetSyncThisZoom(v, b)
    \/ \E v \in Viewers, b \in BOOLEAN : SetSyncThisPan(v, b)
    \/ \E by \in SyncZoomBys : set_all_sync_zoom_by(by)

SpecSync == InitSync /\ [][NextSync]_vars

\* the opacity sliders alone, with more values and one move more
InitOpacity ==
    /\ views = [v \in Viewers |-> Closed]
    /\ main = MultiViewMainWindow
    /\ ghost = Ghost("init", 0, <<0, 0>>, {})
    /\ steps = MaxOpacityEvents
    /\ calc = CalcIdle
    /\ scene = CustomQGraphicsScene
    /\ dialog = NoDialog
    /\ csv = NoFile
    /\ app = Running

NextOpacity ==
    \/ \E v \in Viewers, img \in Images : loadFile(v, img, SyncCursor)
    \/ \E v \in Viewers : subWindowActivated(v)
    \/ \E pane \in {"base", "topright", "bottomleft"}, value \in OpacityValues :
           SliderMoved(pane, value)

SpecOpacity == InitOpacity /\ [][NextOpacity]_vars

----------------------------------------------------------------------------
(* Split lock *)

SplitState(vw) ==
    <<pane_rects(vw), vw.last_updated_point_of_split_on_scene_main>>

\* C1: while the split of a viewer is locked, a mouse move over the viewer,
\* over its border deadzone or over an interface panel changes none of its
\* pane rectangles and not its cached last split point.
C1_LockedSplitIgnoresPointer ==
    [][ghost'.event \in PointerEvents =>
           \A v \in Viewers :
               views[v].split_locked => SplitState(views'[v]) = SplitState(views[v])]_vars

\* a pointer event has reached a locked viewer at a position that would have
\* moved its split
C1_Witness ==
    /\ ghost.event \in PointerEvents
    /\ ghost.sender # 0
    /\ views[ghost.sender].split_locked
    /\ SplitState(SplitView_update_split(views[ghost.sender], ghost.pos))
           # SplitState(views[ghost.sender])

\* the image point a split shortcut button asks for, in scene coordinates
RequestedPoint(vw, xy) ==
    <<RMul(xy[1], RI(vw.imageWidth)), RMul(xy[2], RI(vw.imageHeight))>>

\* scene points p and q are less than n widget pixels apart on both axes
WithinPixels(vw, p, q, n) ==
    /\ RLe(RAbs(RMul(RSub(p[1], q[1]), vw.zoomFactor)), n)
    /\ RLe(RAbs(RMul(RSub(p[2], q[2]), vw.zoomFactor)), n)

ToggleEvents == {"shift_x", "lock_button"}

\* C3: a viewer is unlocked when it is opened; Shift+X and the lock button
\* flip the lock flag of the viewer they are applied to and leave the flag of
\* every other open viewer as it was.
C3_LockIsPerViewerToggle ==
    [][/\ \A v \in Viewers : ~views[v].open /\ views'[v].open => ~views'[v].split_locked
       /\ ghost'.event \in ToggleEvents =>
              \A v \in Viewers :
                  views[v].open =>
                      views'[v].split_locked = IF v = ghost'.sender
                                               THEN ~views[v].split_locked
                                               ELSE views[v].split_locked]_vars

\* a toggle has locked one viewer while another open viewer stayed locked
C3_Witness ==
    /\ ghost.event \in ToggleEvents
    /\ ghost.sender # 0
    /\ views[ghost.sender].split_locked
    /\ \E u \in Viewers \ {ghost.sender} :
           /\ views[u].open
           /\ views[u].split_locked
           /\ u \in ghost.locked_before


PreviewEvents == {"hover_shortcut", "slider"}

\* the scene point under the middle of the widget of a viewer
ViewCentre(vw) == mapToScene(vw, vw.width \div 2, vw.height \div 2)

\* C29: the hover over a split shortcut button and a move of an opacity
\* slider leave the split of every locked viewer (pane rectangles and cached
\* split point) as it was; a move of a slider puts the split of an unlocked
\* active viewer at the centre of its view, within 3/2 widget pixels.
C29_PreviewsRespectLock ==
    [][ghost'.event \in PreviewEvents =>
           /\ \A v \in Viewers :
                  views[v].split_locked => SplitState(views'[v]) = SplitState(views[v])
           /\ (ghost'.event = "slider" /\ ghost'.sender # 0
                   /\ ~views[ghost'.sender].split_locked)
                  => WithinPixels(views[ghost'.sender],
                         views'[ghost'.sender].last_updated_point_of_split_on_scene_main,
                         ViewCentre(views[ghost'.sender]), <<3, 2>>)]_vars

\* a slider was moved, or a shortcut button hovered, while the active viewer
\* was locked with its split away from where the preview would have put it
C29_Witness ==
    /\ ghost.sender # 0
    /\ ghost.sender \in ghost.locked_before
    /\ \/ /\ ghost.event = "slider"
          /\ SplitState(SplitView_update_split(
                            views[ghost.sender],
                            <<views[ghost.sender].width \div 2,
                              views[ghost.sender].height \div 2>>))
                 # SplitState(views[ghost.sender])
       \/ /\ ghost.event = "hover_shortcut"
          /\ SplitState(SplitView_update_split(
                            views[ghost.sender],
                            set_split_point(views[ghost.sender], ghost.request[1],
                                            ghost.request[2], FALSE)))
                 # SplitState(views[ghost.sender])


\* the events after which the lock button is set from the lock of a viewer
LockButtonEvents ==
    {"shift_x", "lock_button", "click_shortcut", "subWindowActivated", "loadFile"}

\* the lock button shows the lock of the active viewer, and is unchecked
\* when there is none
ButtonShowsLock(m, vs) ==
    m.lock_split_pushbutton =
        IF m.activeSubWindow = 0 THEN FALSE ELSE vs[m.activeSubWindow].split_locked

\* C31: after every lock toggle (Shift+X or the button), click of a split
\* shortcut button and activation of a window, the lock button is checked
\* exactly when the active viewer is locked, and unchecked when no viewer is
\* open.
C31_ButtonShowsLock ==
    [][ghost'.event \in LockButtonEvents => ButtonShowsLock(main', views')]_vars

\* the same with a viewer open: the button is checked exactly when the active
\* viewer is locked
C31_ButtonShowsLockOfViewer ==
    [][ghost'.event \in LockButtonEvents /\ main'.activeSubWindow # 0
           => ButtonShowsLock(main', views')]_vars

\* the button was checked from the lock of a locked viewer on its activation,
\* after it had shown the unlocked state of another viewer
C31_ActivatedLockedViewer ==
    /\ ghost.event = "subWindowActivated"
    /\ ghost.sender \in ghost.locked_before
    /\ main.activeSubWindow = ghost.sender
    /\ main.lock_split_pushbutton
    /\ \E u \in Viewers \ {ghost.sender} : views[u].open /\ ~views[u].split_locked

----------------------------------------------------------------------------
(* Zoom and pan synchronisation *)

ZoomEvents == {"zoomIn", "zoomOut", "wheel", "actualSize", "fitToWindow"}

\* the factor synchZoom applies to receiver against sender
AdjustmentFactor(sender, receiver, sync_by) ==
    determineSyncAdjustmentFactor(sync_by,
        determineSyncSenderDimension(sender.imageWidth, sender.imageHeight, sync_by),
        receiver.imageWidth, receiver.imageHeight)

ZoomFollows(sender, receiver, sync_by) ==
    receiver.zoomFactor
        = RMul(sender.zoomFactor, AdjustmentFactor(sender, receiver, sync_by))

\* C4 as stated: with Synch Zoom checked, when the handler of a zoom in, zoom
\* out, wheel turn, actual size or fit that changed the zoom factor of a
\* viewer returns, every other open viewer with sync_this_zoom set has the
\* sender's new zoom factor times its adjustment factor.
C4_ZoomChangePropagated ==
    [][/\ ghost'.event \in ZoomEvents
       /\ main'.synchZoomAct
       /\ views'[ghost'.sender].zoomFactor # views[ghost'.sender].zoomFactor
       => \A r \in Viewers \ {ghost'.sender} :
              views'[r].open /\ views'[r].sync_this_zoom =>
                  ZoomFollows(views'[ghost'.sender], views'[r], main'.sync_zoom_by)]_vars

\* C5: a pan-changed notification raised inside a synchPan pass starts no
\* nested pass, the flag is cleared when the pass ends (it is false whenever
\* a handler has returned), and a later drag of the active view is passed on
\* to every other viewer with sync_this_pan set.
C5_PanGuard ==
    /\ ~main.handlingScrollChangedSignal
    /\ ghost.pass_depth = 0
    /\ ghost.max_pass_depth <= 1
    /\ ghost.event = "pan" /\ main.synchPanAct =>
           /\ ghost.pan_sender = ghost.sender
           /\ ghost.pan_receivers
                  = {r \in Viewers \ {ghost.sender} : views[r].open /\ views[r].sync_this_pan}

\* a pass has moved a receiver, whose own notification was suppressed
C5_Witness ==
    /\ ghost.event = "pan"
    /\ steps = 0
    /\ ghost.suppressed
    /\ ghost.pan_receivers # {}
    /\ ~main.handlingScrollChangedSignal

\* the view centre lies within a widget pixel of the scene point at the
\* fraction state of the scene rectangle, or the scroll bar is at the end of
\* its range on the side of that point
AxisCentred(value, lo, hi, zoom, origin, extent, viewport, percent) ==
    LET wanted == RSub(RMul(zoom, RAdd(RMul(percent, extent), origin)), R(viewport, 2))
    IN  \/ RLt(RAbs(RSub(RI(value), wanted)), RI(1))
        \/ value = lo /\ RLe(wanted, RI(lo))
        \/ value = hi /\ RLe(RI(hi), wanted)

CentredAt(vw, state) ==
    /\ AxisCentred(vw.hvalue, vw.hmin, vw.hmax, vw.zoomFactor, vw.sceneRect[1],
                   vw.sceneRect[3], vw.width, state[1])
    /\ AxisCentred(vw.vvalue, vw.vmin, vw.vmax, vw.zoomFactor, vw.sceneRect[2],
                   vw.sceneRect[4], vw.height, state[2])

SceneFresh(vw) == vw.sceneRect = scene_rect(vw)

SplitFresh(vw) ==
    pane_rects(vw)
        = pane_rects(refresh_split_based_on_last_updated_point_of_split_on_scene_main(vw))

PanReceiversOf(sender) ==
    {r \in Viewers \ {sender} : views[r].open /\ views[r].sync_this_pan}

\* C6: with synchronisation on, when the handler of an event that
\* changed the zoom factor of a viewer with sync_this_zoom set, or of a drag
\* of the active viewer, returns, every receiver has the new value, a scene
\* rectangle as resize_scene computes it, and pane rectangles as the split
\* refresh computes them.
C6_ChangeFullyPropagated ==
    [][/\ /\ ghost'.event \in ZoomEvents
          /\ main'.synchZoomAct
          /\ views'[ghost'.sender].sync_this_zoom
          /\ views'[ghost'.sender].zoomFactor # views[ghost'.sender].zoomFactor
          => \A r \in Viewers \ {ghost'.sender} :
                 views'[r].open /\ views'[r].sync_this_zoom =>
                     /\ ZoomFollows(views'[ghost'.sender], views'[r], main'.sync_zoom_by)
                     /\ SceneFresh(views'[r])
                     /\ SplitFresh(views'[r])
       /\ /\ ghost'.event = "pan"
          /\ main'.synchPanAct
          /\ views'[ghost'.sender].sync_this_pan
          => \A r \in Viewers \ {ghost'.sender} :
                 views'[r].open /\ views'[r].sync_this_pan =>
                     /\ CentredAt(views'[r], scrollState(views'[ghost'.sender]))
                     /\ SceneFresh(views'[r])
                     /\ SplitFresh(views'[r])]_vars

\* the zoom factor the event itself gives the viewer it acts on
ZoomOfEvent(vw, event, notches) ==
    CASE event = "zoomIn" -> RMul(vw.zoomFactor, zoomFactorDelta)
      [] event = "zoomOut" -> RDiv(vw.zoomFactor, zoomFactorDelta)
      [] event = "wheel" -> RMul(vw.zoomFactor, RPow(zoomFactorDelta, notches))
      [] event = "actualSize" -> RI(1)
      [] event = "fitToWindow" ->
             IF (vw.width - 2 * padding_margin) * vw.imageHeight
                    > vw.imageWidth * (vw.height - 2 * padding_margin)
             THEN R(vw.height - 2 * padding_margin, vw.imageHeight)
             ELSE R(vw.width - 2 * padding_margin, vw.imageWidth)
      [] OTHER -> vw.zoomFactor

Scroll(vw) == <<vw.hvalue, vw.vvalue>>

C8_ReceiverCentredAtSenderFraction ==
    ghost.event = "pan" /\ main.synchPanAct =>
        \A r \in PanReceiversOf(ghost.sender) :
            CentredAt(views[r], scrollState(views[ghost.sender]))

----------------------------------------------------------------------------
(* Split geometry *)

\* the edges of a QRectF
RectLeft(rect) == rect[1]

RectTop(rect) == rect[2]

RectRight(rect) == RAdd(rect[1], rect[3])

RectBottom(rect) == RAdd(rect[2], rect[4])

\* the points of the main scene the pane rectangles of a viewer were last
\* computed from: the split point S, the widget origin O and the widget
\* bottom-right B
SplitPointOnSceneMain(vw) ==
    mapToScene(vw.split_mapping, vw.layoutdriving_max[1], vw.layoutdriving_max[2])

WidgetOriginOnSceneMain(vw) == mapToScene(vw.split_mapping, 0, 0)

BottomRightOnSceneMain(vw) == mapToScene(vw.split_mapping, vw.width, vw.height)

\* a pane rectangle has the given near corner and far corner of the main
\* scene, multiplied by scale, the far corner moved out by the render buffer
SpansScaled(rect, near, far, scale) ==
    /\ RectLeft(rect) = RMul(near[1], scale)
    /\ RectTop(rect) = RMul(near[2], scale)
    /\ RectRight(rect) = RAdd(RMul(far[1], scale), RI(render_buffer))
    /\ RectBottom(rect) = RAdd(RMul(far[2], scale), RI(render_buffer))

PaneRectanglesSpan(vw, S, O, B) ==
    /\ SpansScaled(pane_rects(vw).rect_of_scene_topright, <<S[1], O[2]>>, <<B[1], S[2]>>,
                   RInv(vw.topright_zoom_adjust))
    /\ SpansScaled(pane_rects(vw).rect_of_scene_bottomright, S, B,
                   RInv(vw.bottomright_zoom_adjust))
    /\ SpansScaled(pane_rects(vw).rect_of_scene_bottomleft, <<O[1], S[2]>>, <<S[1], B[2]>>,
                   RInv(vw.bottomleft_zoom_adjust))

\* C12: with split point S, widget origin O and widget bottom-right B in the
\* main scene, the top-right pane rectangle spans (S.x, O.y) to (B.x, S.y),
\* the bottom-right one S to B and the bottom-left one (O.x, S.y) to
\* (S.x, B.y), each multiplied by the scale of its pane (one over its zoom
\* adjustment), with the render buffer added to the far edges only.
C12_PaneRectangles ==
    \A v \in Viewers :
        views[v].open =>
            PaneRectanglesSpan(views[v], SplitPointOnSceneMain(views[v]),
                               WidgetOriginOnSceneMain(views[v]),
                               BottomRightOnSceneMain(views[v]))

\* the mouse has put the split inside the view of an image with a smaller
\* top-right overlay
C12_Witness ==
    /\ ghost.event = "mouse_viewer"
    /\ views[ghost.sender].topright_zoom_adjust # RI(1)
    /\ views[ghost.sender].zoomFactor # RI(1)
    /\ views[ghost.sender].layoutdriving_max[1] > 0
    /\ views[ghost.sender].layoutdriving_max[2] > 0
    /\ views[ghost.sender].layoutdriving_max[1] < views[ghost.sender].width

\* the corner a pane rectangle has at the split, mapped back to the main
\* scene: bottom-left of the top-right pane, top-left of the bottom-right
\* pane, top-right of the bottom-left pane (render buffer taken off)
TopRightPaneCorner(vw) ==
    <<RMul(RectLeft(pane_rects(vw).rect_of_scene_topright), vw.topright_zoom_adjust),
      RMul(RSub(RectBottom(pane_rects(vw).rect_of_scene_topright), RI(render_buffer)),
           vw.topright_zoom_adjust)>>

BottomRightPaneCorner(vw) ==
    <<RMul(RectLeft(pane_rects(vw).rect_of_scene_bottomright), vw.bottomright_zoom_adjust),
      RMul(RectTop(pane_rects(vw).rect_of_scene_bottomright), vw.bottomright_zoom_adjust)>>

BottomLeftPaneCorner(vw) ==
    <<RMul(RSub(RectRight(pane_rects(vw).rect_of_scene_bottomleft), RI(render_buffer)),
           vw.bottomleft_zoom_adjust),
      RMul(RectTop(pane_rects(vw).rect_of_scene_bottomleft), vw.bottomleft_zoom_adjust)>>

\* C13: for every split position the three overlay rectangles, mapped back
\* to the main scene and the render buffer left aside, have one common
\* corner, the split point, which is the scene point under the corner of the
\* layout-driving view, where the main pane ends: no gap and no overlap at
\* the split boundary.
C13_PanesMeetAtSplitPoint ==
    \A v \in Viewers :
        views[v].open =>
            /\ TopRightPaneCorner(views[v]) = SplitPointOnSceneMain(views[v])
            /\ BottomRightPaneCorner(views[v]) = SplitPointOnSceneMain(views[v])
            /\ BottomLeftPaneCorner(views[v]) = SplitPointOnSceneMain(views[v])

\* a split strictly inside the view of an image with a scaled overlay
C13_Witness ==
    \E v \in Viewers :
        /\ views[v].open
        /\ views[v].topright_zoom_adjust # RI(1)
        /\ 0 < views[v].layoutdriving_max[1] /\ views[v].layoutdriving_max[1] < views[v].width
        /\ 0 < views[v].layoutdriving_max[2] /\ views[v].layoutdriving_max[2] < views[v].height
        /\ ghost.event = "hover_shortcut"

\* C14: the split point the pane rectangles are computed from never lies
\* above or left of the widget origin; a pointer coordinate that is negative
\* on the widget is taken as zero before it is mapped to the scene.
C14_SplitPointNotBeforeOrigin ==
    \A v \in Viewers :
        views[v].open =>
            /\ RLe(WidgetOriginOnSceneMain(views[v])[1], BottomRightPaneCorner(views[v])[1])
            /\ RLe(WidgetOriginOnSceneMain(views[v])[2], BottomRightPaneCorner(views[v])[2])
            /\ /\ ghost.event = "mouse_viewer"
               /\ ghost.sender = v
               /\ v \notin ghost.locked_before
               => /\ ghost.pos[1] < 0 =>
                         BottomRightPaneCorner(views[v])[1] = WidgetOriginOnSceneMain(views[v])[1]
                  /\ ghost.pos[2] < 0 =>
                         BottomRightPaneCorner(views[v])[2] = WidgetOriginOnSceneMain(views[v])[2]

\* the mouse is above and left of an unlocked viewer: the cached point lies
\* before the origin, the split point used does not
C14_Witness ==
    /\ ghost.event = "mouse_viewer"
    /\ ghost.pos[1] < -1 /\ ghost.pos[2] < -1
    /\ ghost.sender \notin ghost.locked_before
    /\ RLt(views[ghost.sender].last_updated_point_of_split_on_scene_main[1],
           WidgetOriginOnSceneMain(views[ghost.sender])[1])
    /\ BottomRightPaneCorner(views[ghost.sender]) = WidgetOriginOnSceneMain(views[ghost.sender])

SplitUpdateEvents ==
    {"mouse_viewer", "mouse_deadzone", "mouse_interface", "hover_shortcut", "click_shortcut",
     "slider"}

\* a refresh of the viewer as it stands yields the rectangles it has and
\* keeps the cached point and the lock
RefreshKeeps(vw) ==
    /\ pane_rects(refresh_split_based_on_last_updated_point_of_split_on_scene_main(vw))
           = pane_rects(vw)
    /\ refresh_split_based_on_last_updated_point_of_split_on_scene_main(vw)
           .last_updated_point_of_split_on_scene_main
           = vw.last_updated_point_of_split_on_scene_main
    /\ refresh_split_based_on_last_updated_point_of_split_on_scene_main(vw).split_locked
           = vw.split_locked

\* C15: the split point is cached as a point of the main scene (the scene
\* point under the pointer position moved by one pixel); a refresh right
\* after a split update yields the rectangles of the update; a refresh,
\* as on every pan, changes neither the cached point nor the lock.
C15_RefreshFromCachedPoint ==
    [][/\ ghost'.event \in SplitUpdateEvents =>
              \A v \in Viewers : views'[v].open => RefreshKeeps(views'[v])
       /\ ghost'.event = "mouse_viewer" /\ ghost'.sender \notin ghost'.locked_before =>
              views'[ghost'.sender].last_updated_point_of_split_on_scene_main
                  = mapToScene(views'[ghost'.sender], ghost'.pos[1] + 1, ghost'.pos[2] + 1)
       /\ ghost'.event = "pan" =>
              \A v \in Viewers :
                  /\ views'[v].last_updated_point_of_split_on_scene_main
                         = views[v].last_updated_point_of_split_on_scene_main
                  /\ views'[v].split_locked = views[v].split_locked]_vars

\* a pan has refreshed a split that the mouse had placed inside the view:
\* other rectangles, same cached point
C15_Witness ==
    /\ ghost.event = "pan"
    /\ \E v \in Viewers :
           /\ views[v].open
           /\ views[v].layoutdriving_max[1] > 0
           /\ views[v].last_updated_point_of_split_on_scene_main # <<RI(0), RI(0)>>
           /\ views[v].split_mapping = Mapping(views[v])

ViewChangeEvents == ZoomEvents \cup {"pan", "resize"}

\* C16: when the handler of a resize, a zoom event or a pan returns, the pane
\* rectangles of every open viewer, locked or not, are the ones computed
\* from its cached split point for its present size, zoom and scroll values.
C16_RectanglesFollowView ==
    ghost.event \in ViewChangeEvents =>
        \A v \in Viewers : views[v].open => SplitFresh(views[v])

\* a locked viewer with the split inside its view was resized
C16_Witness ==
    /\ ghost.event = "resize"
    /\ ghost.sender \in ghost.locked_before
    /\ views[ghost.sender].split_locked
    /\ views[ghost.sender].layoutdriving_max[1] > 0
    /\ views[ghost.sender].layoutdriving_max[2] > 0
    /\ views[ghost.sender].width # WindowWidth
    /\ views[ghost.sender].split_mapping = Mapping(views[ghost.sender])

\* the adjustment factor of the top-right overlay of a viewer under a strategy
ToprightAdjustment(vw, sync_by) ==
    determineSyncAdjustmentFactor(sync_by,
        determineSyncSenderDimension(vw.imageWidth, vw.imageHeight, sync_by),
        vw.topright_width, vw.topright_height)

\* the top-right pane rectangle is scaled by one over the adjustment factor
\* of its overlay under the strategy
ToprightScaledBy(vw, sync_by) ==
    SpansScaled(pane_rects(vw).rect_of_scene_topright,
                <<SplitPointOnSceneMain(vw)[1], WidgetOriginOnSceneMain(vw)[2]>>,
                <<BottomRightOnSceneMain(vw)[1], SplitPointOnSceneMain(vw)[2]>>,
                RInv(ToprightAdjustment(vw, sync_by)))

\* C17 as stated: the scale of the overlay rectangles is one over the
\* adjustment factor under the sync-by strategy in force, also after the
\* strategy was switched.
C17_ScaleFollowsActiveStrategy ==
    \A v \in Viewers : views[v].open => ToprightScaledBy(views[v], main.sync_zoom_by)

\* C17, amended: the scale of the overlay rectangles is one over the
\* adjustment factor under box, whatever sync-by strategy is in force.
C17_ScaleIsBoxFactor ==
    \A v \in Viewers : views[v].open => ToprightScaledBy(views[v], "box")

\* the strategy was switched to one under which the overlay of an open
\* viewer has another factor than under box
C17_Witness ==
    /\ ghost.event = "sync_zoom_by"
    /\ main.sync_zoom_by # "box"
    /\ \E v \in Viewers :
           /\ views[v].open
           /\ views[v].topright_width > 0
           /\ ToprightAdjustment(views[v], main.sync_zoom_by)
                  # ToprightAdjustment(views[v], "box")
           /\ ToprightScaledBy(views[v], "box")

\* C18: after every zoom operation the horizontal scale of each overlay view
\* is the zoom factor of the main view times the adjustment factor of the
\* overlay; a 500 x 500 overlay on a 1000 x 1000 main image has the factor 2
\* under box.
C18_OverlayScale ==
    /\ zoom_adjust(<<1000, 1000, 500, 500>>, 500, 500) = RI(2)
    /\ \A v \in Viewers :
           views[v].open =>
               /\ views[v].topright_m11
                      = RMul(views[v].zoomFactor, views[v].topright_zoom_adjust)
               /\ views[v].bottomright_m11
                      = RMul(views[v].zoomFactor, views[v].bottomright_zoom_adjust)
               /\ views[v].bottomleft_m11
                      = RMul(views[v].zoomFactor, views[v].bottomleft_zoom_adjust)

\* a zoom event has left a viewer whose overlay is half the size of the
\* main image off the zoom it was opened at
C18_Witness ==
    /\ ghost.event \in ZoomEvents
    /\ \E v \in Viewers :
           /\ views[v].open
           /\ views[v].topright_zoom_adjust = RI(2)
           /\ views[v].zoomFactor = <<5, 4>>
           /\ views[v].topright_m11 = <<5, 2>>
           /\ views[v].bottomright_m11 = <<5, 4>>

\* C19: a split set to (1/2, 1/2) as a fraction of the main image (centre
\* shortcut button hovered over an unlocked viewer, or clicked) is at the
\* middle of the image in the main scene, (400, 300) for 800 x 600: that
\* point is the cached split point and the corner the three pane rectangles
\* share.
C19_SplitAtRequestedFraction ==
    /\ \/ ghost.event = "click_shortcut"
       \/ ghost.event = "hover_shortcut" /\ ghost.sender \notin ghost.locked_before
    /\ ghost.sender # 0
    /\ ghost.request = <<<<1, 2>>, <<1, 2>>>>
    => /\ views[ghost.sender].last_updated_point_of_split_on_scene_main
              = RequestedPoint(views[ghost.sender], ghost.request)
       /\ TopRightPaneCorner(views[ghost.sender])
              = RequestedPoint(views[ghost.sender], ghost.request)
       /\ BottomRightPaneCorner(views[ghost.sender])
              = RequestedPoint(views[ghost.sender], ghost.request)
       /\ BottomLeftPaneCorner(views[ghost.sender])
              = RequestedPoint(views[ghost.sender], ghost.request)

----------------------------------------------------------------------------
(* The adjustment factor functions on their own: the inputs are drawn at   *)
(* the start, then the sender dimension and the factor are computed as     *)
(* synchZoom computes them.                                                *)

CalcInputs ==
    [stage : {"input"}, sync_by : SyncZoomBys,
     sender_width : 1..MaxDim, sender_height : 1..MaxDim,
     receiver_width : 0..MaxDim, receiver_height : 0..MaxDim,
     sender_dimension : {None}, adjustment_factor : {None}]

InitAdjust ==
    /\ views = [v \in Viewers |-> Closed]
    /\ main = MultiViewMainWindow
    /\ ghost = Ghost("init", 0, <<0, 0>>, {})
    /\ steps = 0
    /\ calc \in CalcInputs
    /\ scene = CustomQGraphicsScene
    /\ dialog = NoDialog
    /\ csv = NoFile
    /\ app = Running

\* synchZoom, line 1686
CallDetermineSyncSenderDimension ==
    /\ calc.stage = "input"
    /\ calc' = [calc EXCEPT
                  !.stage = "dimension",
                  !.sender_dimension =
                      determineSyncSenderDimension(calc.sender_width, calc.sender_height,
                                                   calc.sync_by)]
    /\ UNCHANGED <<views, main, ghost, steps, scene, dialog, csv, app>>

\* synchZoom, lines 1693-1696
CallDetermineSyncAdjustmentFactor ==
    /\ calc.stage = "dimension"
    /\ calc' = [calc EXCEPT
                  !.stage = "factor",
                  !.adjustment_factor =
                      determineSyncAdjustmentFactor(calc.sync_by, calc.sender_dimension,
                                                    calc.receiver_width, calc.receiver_height)]
    /\ UNCHANGED <<views, main, ghost, steps, scene, dialog, csv, app>>

NextAdjust ==
    \/ CallDetermineSyncSenderDimension
    \/ CallDetermineSyncAdjustmentFactor

SpecAdjust == InitAdjust /\ [][NextAdjust]_vars

\* the dimension of a width x height image that a strategy goes by
ControllingDimension(sync_by, width, height) ==
    CASE sync_by = "width" -> width
      [] sync_by = "height" -> height
      [] sync_by = "box" -> Max(width, height)

\* C9: for a receiver of positive width and height the adjustment factor is
\* 1 under pixel, and otherwise the sender's controlling dimension divided
\* by the receiver's, the controlling dimension being the width under
\* width, the height under height and the longer side under box.
C9_AdjustmentFactorFormula ==
    calc.stage = "factor" /\ calc.receiver_width > 0 /\ calc.receiver_height > 0 =>
        calc.adjustment_factor
            = IF calc.sync_by = "pixel" THEN RI(1)
              ELSE R(ControllingDimension(calc.sync_by, calc.sender_width, calc.sender_height),
                     ControllingDimension(calc.sync_by, calc.receiver_width,
                                          calc.receiver_height))

\* box, a wide sender and a tall receiver of another size
C9_Witness ==
    /\ calc.stage = "factor"
    /\ calc.sync_by = "box"
    /\ calc.sender_width > calc.sender_height
    /\ calc.receiver_height > calc.receiver_width
    /\ calc.receiver_width > 0
    /\ calc.adjustment_factor = R(calc.sender_width, calc.receiver_height)
    /\ calc.adjustment_factor # RI(1)

\* C10: under every strategy, the adjustment factor of an image of positive
\* width and height against itself is exactly 1.
C10_SelfFactorIsOne ==
    /\ calc.stage = "factor"
    /\ calc.receiver_width = calc.sender_width
    /\ calc.receiver_height = calc.sender_height
    => calc.adjustment_factor = RI(1)

\* an image that is not square against itself, under a strategy that divides
C10_Witness ==
    /\ calc.stage = "factor"
    /\ calc.sync_by # "pixel"
    /\ calc.receiver_width = calc.sender_width
    /\ calc.receiver_height = calc.sender_height
    /\ calc.sender_width # calc.sender_height
    /\ calc.adjustment_factor = RI(1)

\* C11: for a receiver whose width or height is 0 the adjustment factor is 1
\* under every strategy and for every sender; no quotient with a zero
\* denominator (a ZeroDivisionError in the program) is produced.
C11_ZeroReceiverGivesOne ==
    calc.stage = "factor" /\ (calc.receiver_width = 0 \/ calc.receiver_height = 0) =>
        /\ calc.adjustment_factor = RI(1)
        /\ calc.adjustment_factor[2] # 0

\* a strategy that would have divided by the zero dimension
C11_Witness ==
    /\ calc.stage = "factor"
    /\ \/ calc.sync_by = "width" /\ calc.receiver_width = 0 /\ calc.receiver_height > 0
       \/ calc.sync_by = "height" /\ calc.receiver_height = 0 /\ calc.receiver_width > 0
    /\ calc.sender_width > 1
    /\ calc.adjustment_factor = RI(1)

\* C20: in every open viewer the retained original rasters of the base and of
\* the top-right pane are the ones loaded, whatever opacities were set since;
\* the displayed raster is the original painted at the opacity set last, so it
\* does not depend on the values set before; and at opacity 100 the displayed
\* raster is the original, channel for channel.
C20_OpacityFromOriginal ==
    \A v \in Viewers : views[v].open =>
        /\ views[v].pixmap_base_original = QPixmap(views[v].imageWidth, views[v].imageHeight)
        /\ views[v].pixmapItem_main_topleft =
               pixmap_to_be_transparent(views[v].pixmap_base_original, views[v].opacity_base)
        /\ views[v].opacity_base = 100 =>
               views[v].pixmapItem_main_topleft = views[v].pixmap_base_original
        /\ views[v].pixmap_topright_exists =>
               /\ views[v].pixmap_topright_original =
                      QPixmap(views[v].topright_width, views[v].topright_height)
               /\ views[v].pixmapItem_topright =
                      pixmap_to_be_transparent(views[v].pixmap_topright_original,
                                               views[v].opacity_topright)
               /\ views[v].opacity_topright = 100 =>
                      views[v].pixmapItem_topright = views[v].pixmap_topright_original

\* the base slider back at 100 after an earlier move had made the base
\* translucent: the displayed raster is the original again
C20_Witness ==
    /\ ghost.event = "slider"
    /\ main.activeSubWindow # 0
    /\ ghost.opacity_before[1] \in {33, 40}
    /\ views[main.activeSubWindow].opacity_base = 100
    /\ views[main.activeSubWindow].pixmap_base_original # <<>>
    /\ views[main.activeSubWindow].pixmapItem_main_topleft =
           views[main.activeSubWindow].pixmap_base_original

\* C21: an overlay pane of an open viewer that does not exist has the stored
\* opacity 100 and the null pixmap on its item, whatever opacities were
\* requested for it.
C21_AbsentPaneStaysOpaque ==
    \A v \in Viewers : views[v].open =>
        /\ ~views[v].pixmap_topright_exists =>
               /\ views[v].opacity_topright = 100
               /\ views[v].pixmapItem_topright = <<>>
        /\ ~views[v].pixmap_bottomleft_exists =>
               /\ views[v].opacity_bottomleft = 100
               /\ views[v].pixmapItem_bottomleft = <<>>

\* the base was made translucent, then a slider asked for another opacity
\* than 100 on a viewer that has no overlay pane
C21_Witness ==
    /\ ghost.event = "slider"
    /\ ghost.pane \in {"topright", "bottomleft"}
    /\ ghost.value # 100
    /\ main.activeSubWindow # 0
    /\ ~views[main.activeSubWindow].pixmap_topright_exists
    /\ ~views[main.activeSubWindow].pixmap_bottomleft_exists
    /\ views[main.activeSubWindow].opacity_base # 100
    /\ views[main.activeSubWindow].opacity_topright = 100
    /\ views[main.activeSubWindow].opacity_bottomleft = 100

\* the events on which the interface sets the opacity sliders itself
RefreshEvents == {"subWindowActivated", "loadFile"}

\* the opacity of a pane of a viewer
OpacityOf(vw, pane) ==
    IF pane = "base" THEN vw.opacity_base
    ELSE IF pane = "topright" THEN vw.opacity_topright
    ELSE vw.opacity_bottomleft

\* the sliders show the opacities of viewer vw
SlidersShow(m, vw) ==
    \A pane \in Panes : m.sliders_opacity_splitviews.value[pane] = OpacityOf(vw, pane)

\* C30: when a window is activated (by the user or by being loaded) and the
\* sliders are set to its opacities, no slider-changed notification reaches
\* the main window, and the split of a window activated by the user stays
\* where it was.
C30_RefreshIsSilent ==
    [][ghost'.event \in RefreshEvents =>
           /\ ghost'.slider_notifications = <<>>
           /\ ghost'.event = "subWindowActivated" =>
                  SplitState(views'[ghost'.sender]) = SplitState(views[ghost'.sender])]_vars

\* what the refresh does: it is silent exactly when the sliders already show
\* the opacities of the activated window, it then leaves the split of a
\* window activated by the user alone, and afterwards the sliders show the
\* opacities of the active window
C30_SilentWhenSlidersAgree ==
    [][ghost'.event \in RefreshEvents =>
           /\ SlidersShow(main', views'[ghost'.sender])
           /\ ghost'.event = "subWindowActivated" =>
                  /\ ghost'.slider_notifications = <<>>
                         <=> SlidersShow(main, views[ghost'.sender])
                  /\ SlidersShow(main, views[ghost'.sender]) =>
                         SplitState(views'[ghost'.sender]) = SplitState(views[ghost'.sender])
                  /\ \A pane \in Panes :
                         OpacityOf(views'[ghost'.sender], pane)
                             = OpacityOf(views[ghost'.sender], pane)
           /\ ghost'.event = "loadFile" =>
                  (ghost'.slider_notifications = <<>>
                       <=> \A pane \in Panes :
                               main.sliders_opacity_splitviews.value[pane] = 100)]_vars

\* a window was activated whose opacities the sliders did not show, and the
\* notification moved its split
C30_RefreshMovedSplit ==
    /\ ghost.event = "subWindowActivated"
    /\ ghost.slider_notifications # <<>>
    /\ ghost.sender \notin ghost.locked_before
    /\ views[ghost.sender].last_updated_point_of_split_on_scene_main # <<RI(0), RI(0)>>

----------------------------------------------------------------------------
(* aux_rulers.py, aux_scenes.py: the rulers on the main scene of a viewer *)

\* ruler events handled before the model stops
MaxRulerEvents == 4

\* rulers a scene holds at most
MaxRulers == 2

\* scene positions of ruler endpoints
RulerPoints == {<<2, 4>>, <<8, 12>>, <<8, 4>>}

\* pixel-per-millimetre factors the dialog hands back
RulerFactors == {RI(1), RI(2)}

\* units of the ruler menu entries the model chooses
RulerUnits == {"px", "mm", "cm"}

\* A float shown in a label is a sign and a magnitude: -0.0 is not 0.0.
Float(neg, mag) == [neg |-> neg, mag |-> mag]

\* a - b of two scene coordinates
FloatSub(a, b) == Float(a < b, RI(Abs(a - b)))

\* x / px_per_unit, px_per_unit positive
FloatDiv(x, px_per_unit) == Float(x.neg, RDiv(x.mag, px_per_unit))

\* x * y_origin, y_origin +1 or -1
FloatTimesSign(x, y_origin) == Float(IF y_origin < 0 THEN ~x.neg ELSE x.neg, x.mag)

\* nearest integer of a rational that is not negative, a half to the even one
RoundHalfEven(a) ==
    LET f == a[1] \div a[2]
        r == a[1] - f * a[2]
    IN  IF 2 * r < a[2] THEN f
        ELSE IF 2 * r > a[2] THEN f + 1
        ELSE IF f % 2 = 0 THEN f ELSE f + 1

\* "{:.1f}".format(x): the sign and the number of tenths
Format1f(x) == [neg |-> x.neg, tenths |-> RoundHalfEven(RMul(RI(10), x.mag))]

\* tenths shown for sqrt(squared) / px_per_unit: the nearest integer to
\* 10 * sqrt(squared) / px_per_unit, a half to the even one.  The largest t
\* of low..high with (2t - 1) * px_per_unit <= 20 * sqrt(squared):
MaxTenths == 1023

RECURSIVE LargestTenths(_, _, _, _)
LargestTenths(X, n, low, high) ==
    IF low = high THEN low
    ELSE LET mid == (low + high + 1) \div 2
         IN  IF (2 * mid - 1) * (2 * mid - 1) <= X \div (n * n)
             THEN LargestTenths(X, n, mid, high)
             ELSE LargestTenths(X, n, low, mid - 1)

HalfToEven(X, n, t) ==
    IF t > 0 /\ X % (n * n) = 0 /\ (2 * t - 1) * (2 * t - 1) = X \div (n * n) /\ t % 2 = 1
    THEN t - 1 ELSE t

LengthTenths(squared, px_per_unit) ==
    HalfToEven(400 * squared * px_per_unit[2] * px_per_unit[2], px_per_unit[1],
               LargestTenths(400 * squared * px_per_unit[2] * px_per_unit[2],
                             px_per_unit[1], 0, MaxTenths))

\* CustomItem.get_line_length, squared
get_line_length(line) ==
    (line[2][1] - line[1][1]) * (line[2][1] - line[1][1])
        + (line[2][2] - line[1][2]) * (line[2][2] - line[1][2])

\* CustomItem.update_text: the centre label
update_text(item, line) ==
    [abs |-> [neg |-> FALSE,
              tenths |-> LengthTenths(get_line_length(line), item.px_per_unit)],
     unit |-> item.unit]

\* an endpoint label: length, horizontal and vertical delta from the other
\* endpoint "from" to the endpoint "of" (the angle is left out)
endpoint_text(item, line, of, from) ==
    [abs |-> [neg |-> FALSE,
              tenths |-> LengthTenths(get_line_length(line), item.px_per_unit)],
     dx |-> Format1f(FloatDiv(FloatSub(line[of][1], line[from][1]), item.px_per_unit)),
     dy |-> Format1f(FloatTimesSign(
                FloatDiv(FloatSub(line[of][2], line[from][2]), item.px_per_unit),
                item.y_origin)),
     unit |-> item.unit]

\* CustomItem.update_text1
update_text1(item, line) == endpoint_text(item, line, 1, 2)

\* CustomItem.update_text2
update_text2(item, line) == endpoint_text(item, line, 2, 1)

\* CustomItem.__init__ at a position
CustomItem(pos) ==
    [pos |-> pos, unit |-> "px", px_per_unit |-> RI(1),
     relative_origin_position |-> "bottomleft", y_origin |-> -1]

\* an endpoint whose vertical sign does not follow the origin
set_relative_origin_position_AlwaysTopLeft(item, relative_origin_position) ==
    [item EXCEPT !.relative_origin_position = relative_origin_position, !.y_origin = 1]

\* CustomItem.set_relative_origin_position
set_relative_origin_position(item, relative_origin_position) ==
    [item EXCEPT !.relative_origin_position = relative_origin_position,
                 !.y_origin = IF relative_origin_position = "topleft" THEN 1
                              ELSE IF relative_origin_position = "bottomleft" THEN -1
                              ELSE @]

\* CustomItem.move_line_to_center: the item's end of the line goes to new_pos
\* (ellipse_item1 has is_point True and holds p1)
move_line_to_center(line, which, new_pos) ==
    IF which = 1 THEN <<new_pos, line[2]>> ELSE <<line[1], new_pos>>

\* the labels as the endpoint item which (1 or 2) writes them
texts_of(ruler, which, line) ==
    LET item == IF which = 1 THEN ruler.ellipse_item1 ELSE ruler.ellipse_item2
    IN  [ruler EXCEPT !.line = line,
                      !.text = update_text(item, line),
                      !.text1 = update_text1(item, line),
                      !.text2 = update_text2(item, line)]

\* CustomItem.refresh_positions of endpoint item which
refresh_positions(ruler, which) ==
    LET item == IF which = 1 THEN ruler.ellipse_item1 ELSE ruler.ellipse_item2
    IN  texts_of(ruler, which, move_line_to_center(ruler.line, which, item.pos))

\* CustomItem.itemChange(ItemPositionChange) of endpoint item which, then
\* the item is at new_pos
itemChange(ruler, which, new_pos) ==
    LET moved == texts_of(ruler, which, move_line_to_center(ruler.line, which, new_pos))
    IN  IF which = 1 THEN [moved EXCEPT !.ellipse_item1.pos = new_pos]
        ELSE [moved EXCEPT !.ellipse_item2.pos = new_pos]

\* RulerItem.__init__, lines 252-261
mm_per_unit(unit) ==
    IF unit = "cm" THEN RI(10)
    ELSE IF unit = "m" THEN RI(100)
    ELSE IF unit = "in" THEN <<127, 5>>
    ELSE IF unit = "ft" THEN <<1524, 5>>
    ELSE IF unit = "yd" THEN <<4572, 5>>
    ELSE RI(1)

\* the names RulerItem.__init__ declares
RulerItem_parameters ==
    {"unit", "px_per_mm", "initial_pos_p1", "initial_pos_p2", "relative_origin_position"}

\* a keyword argument or the default of the parameter
Argument(kwargs, name, default) ==
    IF name \in DOMAIN kwargs THEN kwargs[name] ELSE default

\* the body of RulerItem.__init__; a null QPointF is false
RulerItem_init(unit, px_per_mm, initial_pos_p1, initial_pos_p2, relative_origin_position) ==
    LET p1 == IF initial_pos_p1 = None \/ initial_pos_p1 = <<0, 0>>
              THEN <<10, 10>> ELSE initial_pos_p1
        p2 == IF initial_pos_p2 = None \/ initial_pos_p2 = <<0, 0>>
              THEN <<100, 200>> ELSE initial_pos_p2
        px_per_unit == IF unit = "px" THEN RI(1) ELSE RMul(px_per_mm, mm_per_unit(unit))
        item(pos) ==
            [set_relative_origin_position(CustomItem(pos), relative_origin_position)
                EXCEPT !.px_per_unit = px_per_unit, !.unit = unit]
    IN  refresh_positions(
            refresh_positions(
                [class |-> "RulerItem", unit |-> unit, mm_per_unit |-> mm_per_unit(unit),
                 px_per_unit |-> px_per_unit,
                 relative_origin_position |-> relative_origin_position,
                 ellipse_item1 |-> item(p1), ellipse_item2 |-> item(p2),
                 line |-> <<<<40, 40>>, <<80, 80>>>>,
                 text |-> <<>>, text1 |-> <<>>, text2 |-> <<>>],
                2),
            1)

\* RulerItem(**kwargs): a keyword that __init__ does not declare, or a
\* factor None multiplied for a unit other than px, raises TypeError; what
\* the call gives is the exception raised, or none and the new item
Raised(exception) == [raised |-> exception, item |-> <<>>]

Returned(item) == [raised |-> "", item |-> item]

RulerItem(kwargs) ==
    IF ~(DOMAIN kwargs \subseteq RulerItem_parameters) THEN Raised("TypeError")
    ELSE IF Argument(kwargs, "unit", "px") # "px" /\ Argument(kwargs, "px_per_mm", None) = None
    THEN Raised("TypeError")
    ELSE Returned(RulerItem_init(Argument(kwargs, "unit", "px"),
                        Argument(kwargs, "px_per_mm", None),
                        Argument(kwargs, "initial_pos_p1", None),
                        Argument(kwargs, "initial_pos_p2", None),
                        Argument(kwargs, "relative_origin_position", "bottomleft")))

\* isinstance(item, class) for the items of a scene
isinstance(item, class) == item.class = class

\* QGraphicsScene.addItem of what a constructor call gave
addItem(sc, call) ==
    IF call.raised # "" THEN [sc EXCEPT !.raised = call.raised]
    ELSE [sc EXCEPT !.items = Append(@, call.item)]

\* a handler that reads the factor without writing it to the endpoints
set_and_refresh_px_per_unit_RulerOnly(ruler, px_per_unit) ==
    IF ruler.unit # "px"
    THEN [ruler EXCEPT !.px_per_unit = RMul(px_per_unit, ruler.mm_per_unit)]
    ELSE ruler

\* RulerItem.set_and_refresh_px_per_unit
set_and_refresh_px_per_unit(ruler, px_per_unit) ==
    IF ruler.unit # "px"
    THEN refresh_positions(
             refresh_positions(
                 [ruler EXCEPT
                    !.px_per_unit = RMul(px_per_unit, ruler.mm_per_unit),
                    !.ellipse_item1.px_per_unit = RMul(px_per_unit, ruler.mm_per_unit),
                    !.ellipse_item2.px_per_unit = RMul(px_per_unit, ruler.mm_per_unit)],
                 2),
             1)
    ELSE ruler

\* RulerItem.set_and_refresh_relative_origin_position
set_and_refresh_relative_origin_position(ruler, relative_origin_position) ==
    refresh_positions(
        refresh_positions(
            [ruler EXCEPT
               !.relative_origin_position = relative_origin_position,
               !.ellipse_item1 = set_relative_origin_position(@, relative_origin_position),
               !.ellipse_item2 = set_relative_origin_position(@, relative_origin_position)],
            2),
        1)

\* the ruler menu entry that calls RulerItem by the names it declares
on_right_click_ruler_ByDeclaredNames(sc, unit, px_per_unit, pos_p1, pos_p2) ==
    addItem(sc, RulerItem([unit |-> unit, px_per_mm |-> px_per_unit,
                           initial_pos_p1 |-> pos_p1, initial_pos_p2 |-> pos_p2,
                           relative_origin_position |-> sc.relative_origin_position]))

\* SplitView.on_right_click_ruler with the unit and factor the scene emits;
\* pos_p1 and pos_p2 are the scene points a third and two thirds into the view
on_right_click_ruler(sc, unit, px_per_unit, pos_p1, pos_p2) ==
    addItem(sc, RulerItem([unit |-> unit, px_per_unit |-> px_per_unit,
                           initial_pos_p1 |-> pos_p1, initial_pos_p2 |-> pos_p2,
                           relative_origin_position |-> sc.relative_origin_position]))

\* SplitView.on_changed_px_per_unit
on_changed_px_per_unit(sc, unit, px_per_unit) ==
    [sc EXCEPT !.items =
        [i \in 1..Len(sc.items) |->
            IF isinstance(sc.items[i], "RulerItem") /\ sc.items[i].unit = unit
            THEN set_and_refresh_px_per_unit(sc.items[i], px_per_unit)
            ELSE sc.items[i]]]

\* CustomQGraphicsScene.dialog_to_set_px_per_mm once dialog_window.exec_() returned Accepted
dialog_to_set_px_per_mm(sc, dialog_window) ==
    [(IF sc.px_per_unit_conversion_set
      THEN on_changed_px_per_unit([sc EXCEPT !.px_per_unit = dialog_window.px_per_unit],
                                  "mm", dialog_window.px_per_unit)
      ELSE [sc EXCEPT !.px_per_unit = dialog_window.px_per_unit])
        EXCEPT !.px_per_unit_conversion_set = TRUE,
               !.px_conversion = dialog_window.px_conversion,
               !.unit_conversion = dialog_window.unit_conversion]

\* SplitView.on_right_click_set_relative_origin_position, then
\* CustomQGraphicsScene.set_relative_origin_position (connection order)
on_right_click_set_relative_origin_position(sc, string) ==
    [sc EXCEPT !.items =
                   [i \in 1..Len(sc.items) |->
                       IF isinstance(sc.items[i], "RulerItem")
                       THEN set_and_refresh_relative_origin_position(sc.items[i], string)
                       ELSE sc.items[i]],
               !.relative_origin_position = string]

\* a handler of the scene starts
SceneEvent(event, unit) ==
    [scene EXCEPT !.raised = "", !.box = "", !.last = [event |-> event, unit |-> unit]]

SceneStep(sc) ==
    /\ Step
    /\ scene' = sc
    /\ UNCHANGED <<views, main, ghost, calc, dialog, csv, app>>

\* an enabled ruler entry of the right-click menu was chosen
\* (CustomQGraphicsScene.contextMenuEvent, lines 167-176)
RightClickRuler(unit, pos_p1, pos_p2) ==
    /\ scene.px_per_unit_conversion_set \/ unit = "px"
    /\ SceneStep(on_right_click_ruler(SceneEvent("right_click_ruler", unit), unit,
                                      scene.px_per_unit, pos_p1, pos_p2))

\* a ruler built by RulerItem under the names it declares is put on the scene
PlaceRuler(unit, pos_p1, pos_p2) ==
    /\ scene.px_per_unit_conversion_set \/ unit = "px"
    /\ Len(scene.items) < MaxRulers
    /\ SceneStep(on_right_click_ruler_ByDeclaredNames(
                     SceneEvent("place_ruler", unit), unit, scene.px_per_unit,
                     pos_p1, pos_p2))

\* an endpoint of a ruler was dragged
DragEndpoint(i, which, new_pos) ==
    /\ i \in 1..Len(scene.items)
    /\ SceneStep([SceneEvent("drag", scene.items[i].unit)
                     EXCEPT !.items[i] = itemChange(@, which, new_pos)])

\* the conversion dialog was accepted with a factor
DialogAccepted(px_per_unit) ==
    SceneStep(dialog_to_set_px_per_mm(SceneEvent("dialog", "mm"),
                                      [px_conversion |-> px_per_unit,
                                       unit_conversion |-> RI(1),
                                       px_per_unit |-> px_per_unit]))

\* a relative-origin entry of the menu was chosen
RightClickRelativeOrigin(string) ==
    SceneStep(on_right_click_set_relative_origin_position(SceneEvent("origin", ""), string))

InitRuler ==
    /\ views = [v \in Viewers |-> Closed]
    /\ main = MultiViewMainWindow
    /\ ghost = Ghost("init", 0, <<0, 0>>, {})
    /\ steps = MaxRulerEvents
    /\ calc = CalcIdle
    /\ scene = CustomQGraphicsScene
    /\ dialog = NoDialog
    /\ csv = NoFile
    /\ app = Running

NextRuler ==
    \/ \E unit \in RulerUnits, p1 \in RulerPoints, p2 \in RulerPoints :
           RightClickRuler(unit, p1, p2)
    \/ \E unit \in RulerUnits, p1 \in RulerPoints, p2 \in RulerPoints :
           PlaceRuler(unit, p1, p2)
    \/ \E i \in 1..MaxRulers, which \in {1, 2}, pos \in RulerPoints : DragEndpoint(i, which, pos)
    \/ \E f \in RulerFactors : DialogAccepted(f)
    \/ \E string \in {"topleft", "bottomleft"} : RightClickRelativeOrigin(string)

SpecRuler == InitRuler /\ [][NextRuler]_vars

\* C22: choosing an enabled ruler entry of the right-click menu, of whatever
\* unit, raises no exception and leaves exactly one ruler more in the main
\* scene, which has the unit chosen and the scene's conversion for it.
C22_RulerEntryCreatesRuler ==
    [][scene'.last.event = "right_click_ruler" =>
           /\ scene'.raised = ""
           /\ Len(scene'.items) = Len(scene.items) + 1
           /\ scene'.items[Len(scene'.items)].unit = scene'.last.unit
           /\ scene'.items[Len(scene'.items)].px_per_unit
                  = IF scene'.last.unit = "px" THEN RI(1)
                    ELSE RMul(scene.px_per_unit, mm_per_unit(scene'.last.unit))]_vars

\* the labels of a ruler are the ones its endpoints give under the factor
LabelsUnder(ruler, px_per_unit) ==
    LET item == [ruler.ellipse_item1 EXCEPT !.px_per_unit = px_per_unit]
        line == <<ruler.ellipse_item1.pos, ruler.ellipse_item2.pos>>
    IN  /\ ruler.line = line
        /\ ruler.text = update_text(item, line)
        /\ ruler.text1 = update_text1(item, line)
        /\ ruler.text2 = update_text2(item, line)

Opposite(a, b, differ) == a.tenths = b.tenths /\ (differ => a.neg # b.neg)

\* the delta is the earlier one negated
Negated(after, before) == after.tenths = before.tenths /\ after.neg # before.neg

----------------------------------------------------------------------------
(* aux_dialogs.py: the dialog of the pixel-per-millimetre conversion *)

MaxDialogEvents == 4

\* A text is the sequence of its characters.
Digits == {"0", "1", "2", "3", "4", "5", "6", "7", "8", "9"}

DigitValue(c) ==
    CASE c = "0" -> 0 [] c = "1" -> 1 [] c = "2" -> 2 [] c = "3" -> 3 [] c = "4" -> 4
      [] c = "5" -> 5 [] c = "6" -> 6 [] c = "7" -> 7 [] c = "8" -> 8 [] c = "9" -> 9

\* 1 followed by 399 zeros: digits only, beyond the largest float
LongDigits == [i \in 1..400 |-> IF i = 1 THEN "1" ELSE "0"]

\* 0. followed by 399 zeros and a 1: below the smallest float
TinyDigits ==
    [i \in 1..402 |-> IF i = 2 THEN "." ELSE IF i = 402 THEN "1" ELSE "0"]

\* what is typed or pasted into a field of the dialog
DialogTexts ==
    {<<"2">>, <<"4">>, <<" ", "8">>, <<"0", ",", "5">>, <<"2", ".">>,
     <<"0">>, <<"0", ".", "0">>, <<"0", "0">>,
     <<>>, <<" ">>, <<"a", "b", "c">>, <<"-", "1">>, <<".">>, <<"1", ".", "2", ".", "3">>,
     LongDigits, TinyDigits}

\* A float is a rational <<n, d>> with d > 0, or inf, or nan. The texts
\* above give powers of two, which floats and their quotients hold exactly.
Inf == <<1, 0>>

NaN == <<0, 0>>

isfinite(x) == x[2] # 0

\* str.replace(old, new) for a character old and a text new of no or one
\* character (the calls of lines 134-139)
replace(text, old, new) ==
    IF new = <<>> THEN SelectSeq(text, LAMBDA c : c # old)
    ELSE [i \in 1..Len(text) |-> IF text[i] = old THEN new[1] ELSE text[i]]

\* str.isnumeric(): at least one character and all of them numeric
isnumeric(text) == text # <<>> /\ \A i \in 1..Len(text) : text[i] \in Digits

LeadingZeros(digits) ==
    IF \A i \in 1..Len(digits) : digits[i] = "0" THEN Len(digits)
    ELSE (CHOOSE i \in 1..Len(digits) :
              digits[i] # "0" /\ \A j \in 1..(i - 1) : digits[j] = "0") - 1

RECURSIVE DigitsValue(_)
DigitsValue(digits) ==
    IF digits = <<>> THEN 0
    ELSE 10 * DigitsValue(SubSeq(digits, 1, Len(digits) - 1)) + DigitValue(digits[Len(digits)])

RECURSIVE Pow10(_)
Pow10(n) == IF n = 0 THEN 1 ELSE 10 * Pow10(n - 1)

\* the value of the decimal int_part.frac_part as float(text) rounds it: an
\* integer part of more than 309 digits lies above the largest float
\* (1.8e308) and gives inf, a value below 1e-324 lies under half the smallest
\* float (4.9e-324) and gives 0.0
DecimalValue(int_part, frac_part) ==
    IF Len(int_part) - LeadingZeros(int_part) > 309 THEN Inf
    ELSE IF LeadingZeros(int_part) = Len(int_part) /\ LeadingZeros(frac_part) >= 324 THEN RI(0)
    ELSE R(DigitsValue(int_part \o frac_part), Pow10(Len(frac_part)))

PointAt(text) == CHOOSE i \in 1..Len(text) : text[i] = "."

\* str.strip() of blanks, as float() does before it reads its argument
RECURSIVE strip(_)
strip(text) ==
    IF text = <<>> THEN text
    ELSE IF Head(text) = " " THEN strip(Tail(text))
    ELSE IF text[Len(text)] = " " THEN strip(SubSeq(text, 1, Len(text) - 1))
    ELSE text

\* float(text) for an unsigned text: ValueError for a character that is no
\* digit or point, for two points and for no digit (the texts of the model
\* hold no exponent, underscore, "inf" or "nan")
UnsignedFloat(text) ==
    IF \E i \in 1..Len(text) : text[i] \notin Digits \cup {"."} THEN Raised("ValueError")
    ELSE IF \A i \in 1..Len(text) : text[i] # "."
    THEN (IF text = <<>> THEN Raised("ValueError") ELSE Returned(DecimalValue(text, <<>>)))
    ELSE IF Len(text) = 1 \/ \E i \in (PointAt(text) + 1)..Len(text) : text[i] = "."
    THEN Raised("ValueError")
    ELSE Returned(DecimalValue(SubSeq(text, 1, PointAt(text) - 1),
                               SubSeq(text, PointAt(text) + 1, Len(text))))

SignedFloat(text) ==
    IF text # <<>> /\ Head(text) = "-"
    THEN (IF UnsignedFloat(Tail(text)).raised # "" THEN UnsignedFloat(Tail(text))
          ELSE Returned(RNeg(UnsignedFloat(Tail(text)).item)))
    ELSE IF text # <<>> /\ Head(text) = "+" THEN UnsignedFloat(Tail(text))
    ELSE UnsignedFloat(text)

\* float(text)
float(text) == SignedFloat(strip(text))

\* float / float: ZeroDivisionError for a zero divisor, inf and nan by the
\* rules of IEEE 754 otherwise
truediv(a, b) ==
    IF b = RI(0) THEN Raised("ZeroDivisionError")
    ELSE IF a = NaN \/ b = NaN \/ (a = Inf /\ b = Inf) THEN Returned(NaN)
    ELSE IF a = Inf THEN Returned(Inf)
    ELSE IF b = Inf THEN Returned(RI(0))
    ELSE Returned(RDiv(a, b))

\* PixelUnitConversionInputDialog.__init__ as the scene calls it (px_per_unit given)
PixelUnitConversionInputDialog(px_conversion, unit_conversion, px_per_unit) ==
    [open |-> TRUE, px_conversion |-> px_conversion, unit_conversion |-> unit_conversion,
     px_per_unit |-> px_per_unit, raised |-> "",
     last |-> [field |-> "", text |-> <<>>]]

\* lines 134-141 and 181-188: spaces removed, comma to point, and whether
\* the text goes on to float(); the results of lines 142-145 and 189-192
\* are thrown away
Filtered(text) == replace(replace(text, " ", <<>>), ",", <<".">>)

PassesFilter(text) == Filtered(text) # <<>> /\ isnumeric(replace(Filtered(text), ".", <<>>))

\* on_px_textedit_edited without the test 1/px_conversion
on_px_textedit_edited_WithoutZeroTest(dlg, text) ==
    IF ~PassesFilter(text) THEN dlg
    ELSE IF float(Filtered(text)).raised # "" THEN dlg
    ELSE IF truediv(float(Filtered(text)).item, dlg.unit_conversion).raised # ""
    THEN [dlg EXCEPT !.raised = truediv(float(Filtered(text)).item, dlg.unit_conversion).raised]
    ELSE [dlg EXCEPT !.px_conversion = float(Filtered(text)).item,
                     !.px_per_unit = truediv(float(Filtered(text)).item,
                                             dlg.unit_conversion).item]

\* PixelUnitConversionInputDialog.on_px_textedit_edited; the division of
\* line 158 stands outside the try blocks
on_px_textedit_edited(dlg, text) ==
    IF ~PassesFilter(text) THEN dlg
    ELSE IF float(Filtered(text)).raised # "" THEN dlg
    ELSE IF truediv(RI(1), float(Filtered(text)).item).raised # "" THEN dlg
    ELSE IF truediv(float(Filtered(text)).item, dlg.unit_conversion).raised # ""
    THEN [dlg EXCEPT !.raised = truediv(float(Filtered(text)).item, dlg.unit_conversion).raised]
    ELSE [dlg EXCEPT !.px_conversion = float(Filtered(text)).item,
                     !.px_per_unit = truediv(float(Filtered(text)).item,
                                             dlg.unit_conversion).item]

\* PixelUnitConversionInputDialog.on_unit_textedit_edited
on_unit_textedit_edited(dlg, text) ==
    IF ~PassesFilter(text) THEN dlg
    ELSE IF float(Filtered(text)).raised # "" THEN dlg
    ELSE IF truediv(dlg.px_conversion, float(Filtered(text)).item).raised # "" THEN dlg
    ELSE [dlg EXCEPT !.unit_conversion = float(Filtered(text)).item,
                     !.px_per_unit = truediv(dlg.px_conversion,
                                             float(Filtered(text)).item).item]

\* a text was edited in a field of the open dialog
DialogEvent(field, text) ==
    [dialog EXCEPT !.raised = "", !.last = [field |-> field, text |-> text]]

DialogStep(sc, dlg) ==
    /\ Step
    /\ scene' = sc
    /\ dialog' = dlg
    /\ UNCHANGED <<views, main, ghost, calc, csv, app>>

\* "Set ruler conversion factor..." of the right-click menu: the dialog opens
\* with the values the scene holds (dialog_to_set_px_per_mm, line 306)
OpenDialog ==
    /\ ~dialog.open
    /\ DialogStep(scene, PixelUnitConversionInputDialog(scene.px_conversion,
                                                         scene.unit_conversion,
                                                         scene.px_per_unit))

\* QLineEdit.textEdited of the pixel field
EditPx(text) ==
    /\ dialog.open
    /\ DialogStep(scene, on_px_textedit_edited(DialogEvent("px", text), text))

\* QLineEdit.textEdited of the millimetre field
EditUnit(text) ==
    /\ dialog.open
    /\ DialogStep(scene, on_unit_textedit_edited(DialogEvent("unit", text), text))

\* Ok: exec_() returns Accepted and the scene takes the values of the dialog
AcceptDialog ==
    /\ dialog.open
    /\ DialogStep(dialog_to_set_px_per_mm(SceneEvent("dialog", "mm"), dialog), NoDialog)

\* Cancel: the scene keeps its values
RejectDialog ==
    /\ dialog.open
    /\ DialogStep(scene, NoDialog)

InitDialog ==
    /\ views = [v \in Viewers |-> Closed]
    /\ main = MultiViewMainWindow
    /\ ghost = Ghost("init", 0, <<0, 0>>, {})
    /\ steps = MaxDialogEvents
    /\ calc = CalcIdle
    /\ scene = CustomQGraphicsScene
    /\ dialog = NoDialog
    /\ csv = NoFile
    /\ app = Running

NextDialog ==
    \/ OpenDialog
    \/ \E text \in DialogTexts : EditPx(text)
    \/ \E text \in DialogTexts : EditUnit(text)
    \/ AcceptDialog
    \/ RejectDialog

SpecDialog == InitDialog /\ [][NextDialog]_vars

\* the texts of the inputs that stand for zero, and those that are no number
ZeroTexts == {<<"0">>, <<"0", ".", "0">>, <<"0", "0">>}

NonNumericTexts ==
    {<<>>, <<" ">>, <<"a", "b", "c">>, <<"-", "1">>, <<".">>, <<"1", ".", "2", ".", "3">>}

\* an edit with a zero or non-numeric text leaves the three values of the
\* dialog as they were and raises nothing
RejectedInputKeepsFactor ==
    (dialog.open /\ dialog'.open /\ dialog'.last.text \in ZeroTexts \cup NonNumericTexts)
        => /\ dialog'.px_conversion = dialog.px_conversion
           /\ dialog'.unit_conversion = dialog.unit_conversion
           /\ dialog'.px_per_unit = dialog.px_per_unit
           /\ dialog'.raised = ""

\* a factor that rulers can divide by
UsableFactor(px_per_unit) == px_per_unit # RI(0) /\ px_per_unit # NaN

\* C25: in the conversion dialog a zero or non-numeric input is rejected (the
\* factor keeps its value, nothing is raised), so that the factor of the
\* dialog and the one the scene stores are never zero or undefined.
C25_ZeroInputRejected ==
    [][/\ RejectedInputKeepsFactor
       /\ dialog'.open => UsableFactor(dialog'.px_per_unit)
       /\ UsableFactor(scene'.px_per_unit)]_vars

\* the part of C25 about the inputs it names
C25_NamedInputsRejected == [][RejectedInputKeepsFactor]_vars

----------------------------------------------------------------------------
(* aux_comments.py, aux_splitview.py: comments, their export and import *)

MaxCommentEvents == 4

MaxComments == 2

\* A string of a row is a sequence of pieces: the delimiter and the quote
\* character are pieces of their own, a number is written digit by digit,
\* and a run of other characters may stand as one piece.
CommentPoints == {<<RI(10), RI(20)>>, <<R(5, 2), RI(-4)>>}

CommentColors == {<<"white">>, <<"red">>}

CommentStrings == {<<"Text">>, <<"a", "|", "b">>, <<"\"", "q", "\"">>}

\* the image of the viewer (SplitView.currentFile), by its base name
currentFile == <<"image.png">>

\* CommentItem.__init__; pos is the position of line_item_bounding_box, which
\* get_scene_pos returns. The strings of the model hold nothing that
\* setHtml in set_color would read as markup.
CommentItem(initial_scene_pos, color, comment_text) ==
    [class |-> "CommentItem", pos |-> initial_scene_pos, color |-> color,
     comment_text |-> comment_text]

\* SplitView.on_right_click_comment
on_right_click_comment(sc, scene_pos) ==
    addItem(sc, Returned(CommentItem(scene_pos, <<"white">>, <<"Text">>)))

DigitChar(d) ==
    CASE d = 0 -> "0" [] d = 1 -> "1" [] d = 2 -> "2" [] d = 3 -> "3" [] d = 4 -> "4"
      [] d = 5 -> "5" [] d = 6 -> "6" [] d = 7 -> "7" [] d = 8 -> "8" [] d = 9 -> "9"

RECURSIVE IntText(_)
IntText(n) == IF n < 10 THEN <<DigitChar(n)>> ELSE Append(IntText(n \div 10), DigitChar(n % 10))

RECURSIVE FracText(_, _)
FracText(num, den) ==
    IF num = 0 THEN <<>>
    ELSE <<DigitChar((10 * num) \div den)>> \o FracText((10 * num) % den, den)

\* str(x) of a float, as csv.writer writes it: the shortest decimal that
\* reads back as x, which for the coordinates of the model (halves and
\* integers below 1e16) is the exact expansion with at least one place
str(x) ==
    (IF x[1] < 0 THEN <<"-">> ELSE <<>>)
        \o IntText(Abs(x[1]) \div x[2]) \o <<".">>
        \o (IF Abs(x[1]) % x[2] = 0 THEN <<"0">> ELSE FracText(Abs(x[1]) % x[2], x[2]))

RECURSIVE DoubledQuotes(_)
DoubledQuotes(field) ==
    IF field = <<>> THEN <<>>
    ELSE (IF Head(field) = "\"" THEN <<"\"", "\"">> ELSE <<Head(field)>>)
             \o DoubledQuotes(Tail(field))

\* a field as csv.writer(delimiter="|") writes it: in quotes, with the quotes
\* inside doubled, when it holds the delimiter or a quote
WrittenField(field) ==
    IF \E i \in 1..Len(field) : field[i] \in {"|", "\""}
    THEN <<"\"">> \o DoubledQuotes(field) \o <<"\"">>
    ELSE field

\* csv.writer.writerow: the line without its terminator
RECURSIVE writerow(_)
writerow(row) ==
    IF row = <<<<>>>> THEN <<"\"", "\"">>
    ELSE IF Len(row) = 1 THEN WrittenField(row[1])
    ELSE WrittenField(Head(row)) \o <<"|">> \o writerow(Tail(row))

\* csv.reader(delimiter="|") on the rest of a line, with the field begun,
\* whether it stands inside quotes, and the fields read so far
RECURSIVE ReadLine(_, _, _, _)
ReadLine(line, field, in_quotes, row) ==
    IF line = <<>> THEN Append(row, field)
    ELSE IF in_quotes
    THEN (IF Head(line) # "\"" THEN ReadLine(Tail(line), Append(field, Head(line)), TRUE, row)
          ELSE IF Len(line) > 1 /\ line[2] = "\""
          THEN ReadLine(Tail(Tail(line)), Append(field, "\""), TRUE, row)
          ELSE ReadLine(Tail(line), field, FALSE, row))
    ELSE IF Head(line) = "|" THEN ReadLine(Tail(line), <<>>, FALSE, Append(row, field))
    ELSE IF Head(line) = "\"" /\ field = <<>> THEN ReadLine(Tail(line), <<>>, TRUE, row)
    ELSE ReadLine(Tail(line), Append(field, Head(line)), FALSE, row)

\* list(csv.reader(csv_file, delimiter="|")): an empty line gives the row []
csv_reader(lines) ==
    [i \in 1..Len(lines) |->
        IF lines[i] = <<>> THEN <<>> ELSE ReadLine(lines[i], <<>>, FALSE, <<>>)]

ColumnRow == <<<<"Style">>, <<"Image x">>, <<"Image y">>, <<"Appearance">>, <<"String">>>>

header ==
    <<<<<<"Butterfly Viewer">>>>, <<<<"1.0">>>>, <<<<"comments">>>>, <<<<"no details">>>>,
      <<<<"origin">>>>, <<currentFile>>, ColumnRow>>

\* QGraphicsScene.items(): the items from the one added last to the first
items(sc) == [i \in 1..Len(sc.items) |-> sc.items[Len(sc.items) + 1 - i]]

\* the row of an item in on_right_click_save_all_comments (zip of style, x, y, color, string)
CommentRow(item) ==
    <<<<"plain text">>, str(item.pos[1]), str(item.pos[2]), item.color, item.comment_text>>

\* SplitView.on_right_click_save_all_comments once a file name was chosen:
\* the lines written
on_right_click_save_all_comments(sc) ==
    [i \in 1..Len(header) |-> writerow(header[i])]
        \o [i \in 1..Len(SelectSeq(items(sc), LAMBDA item : isinstance(item, "CommentItem"))) |->
               writerow(CommentRow(SelectSeq(items(sc),
                                             LAMBDA item : isinstance(item, "CommentItem"))[i]))]

\* csv_list.index(ColumnRow), 0 for the ValueError
index(csv_list, row) ==
    IF \E i \in 1..Len(csv_list) : csv_list[i] = row
    THEN CHOOSE i \in 1..Len(csv_list) :
             csv_list[i] = row /\ \A j \in 1..(i - 1) : csv_list[j] # row
    ELSE 0

\* the body of the loop of on_right_click_load_comments for a row whose
\* style is "plain text": the exception of the first step that raises, or
\* the comment added
LoadedRow(sc, row) ==
    IF Len(row) < 2 THEN [sc EXCEPT !.raised = "IndexError"]
    ELSE IF float(row[2]).raised # "" THEN [sc EXCEPT !.raised = float(row[2]).raised]
    ELSE IF Len(row) < 3 THEN [sc EXCEPT !.raised = "IndexError"]
    ELSE IF float(row[3]).raised # "" THEN [sc EXCEPT !.raised = float(row[3]).raised]
    ELSE IF Len(row) < 5 THEN [sc EXCEPT !.raised = "IndexError"]
    ELSE addItem(sc, Returned(CommentItem(<<float(row[2]).item, float(row[3]).item>>,
                                          row[4], row[5])))

\* the loop over csv_list[i:] skips the rows of another style without a try
\* block around the rest
RECURSIVE LoadedRows(_, _, _)
LoadedRows(sc, rows, no_comments) ==
    IF rows = <<>>
    THEN (IF no_comments THEN [sc EXCEPT !.box = "No comments in .csv"] ELSE sc)
    ELSE IF Len(Head(rows)) < 1 THEN [sc EXCEPT !.raised = "IndexError"]
    ELSE IF Head(rows)[1] # <<"plain text">>
    THEN LoadedRows(sc, Tail(rows), no_comments)
    ELSE IF LoadedRow(sc, Head(rows)).raised # "" THEN LoadedRow(sc, Head(rows))
    ELSE LoadedRows(LoadedRow(sc, Head(rows)), Tail(rows), FALSE)

\* SplitView.on_right_click_load_comments once a file was chosen
on_right_click_load_comments(sc, lines) ==
    IF index(csv_reader(lines), ColumnRow) = 0
    THEN [sc EXCEPT !.box = "Invalid .csv comment file"]
    ELSE LoadedRows(
             sc, SubSeq(csv_reader(lines), index(csv_reader(lines), ColumnRow) + 1, Len(lines)),
             TRUE)

\* CommentItem.set_color
set_color(item, color) == [item EXCEPT !.color = color]

\* files as they are edited outside the program: the lines under the header
ValidLine == writerow(CommentRow(CommentItem(<<RI(3), RI(4)>>, <<"red">>, <<"Text">>)))

EditedLines ==
    {<<ValidLine>>,
     <<<<>>, ValidLine>>,
     <<<<"plain text", "|", "1", ".", "0">>, ValidLine>>,
     <<ValidLine, <<"plain text", "|", "abc", "|", "2", "|", "red", "|", "Text">>>>,
     <<<<"ruler", "|", "1", "|", "2">>, ValidLine>>,
     <<<<"ruler", "|", "1", "|", "2">>>>,
     <<>>}

HeaderLines == [i \in 1..Len(header) |-> writerow(header[i])]

EditedFiles == {HeaderLines \o lines : lines \in EditedLines} \cup EditedLines

\* a file on disk: its lines, and whether the program wrote them and from
\* which items
File(lines, is_export, exported) ==
    [exists |-> TRUE, lines |-> lines, is_export |-> is_export, exported |-> exported]

CommentStep(sc, file) ==
    /\ Step
    /\ scene' = sc
    /\ csv' = file
    /\ UNCHANGED <<views, main, ghost, calc, dialog, app>>

\* "Comment" of the right-click menu
RightClickComment(scene_pos) ==
    /\ Len(scene.items) < MaxComments
    /\ CommentStep(on_right_click_comment(SceneEvent("right_click_comment", ""), scene_pos), csv)

\* a colour of "Set comment color..." was chosen for a comment
SetCommentColor(i, color) ==
    /\ i \in 1..Len(scene.items)
    /\ isinstance(scene.items[i], "CommentItem")
    /\ CommentStep([SceneEvent("set_color", "") EXCEPT !.items[i] = set_color(@, color)], csv)

\* a comment was dragged (line_item_bounding_box is movable)
MoveComment(i, scene_pos) ==
    /\ i \in 1..Len(scene.items)
    /\ isinstance(scene.items[i], "CommentItem")
    /\ CommentStep([SceneEvent("move_comment", "") EXCEPT !.items[i].pos = scene_pos], csv)

\* the text of a comment was edited
EditComment(i, comment_text) ==
    /\ i \in 1..Len(scene.items)
    /\ isinstance(scene.items[i], "CommentItem")
    /\ CommentStep([SceneEvent("edit_comment", "")
                       EXCEPT !.items[i].comment_text = comment_text], csv)

\* "Save all comments of this view (.csv)...": a file name is chosen or the
\* file dialog is cancelled; exported remembers the items the file was
\* written from
SaveAllComments(chosen) ==
    CommentStep(SceneEvent(IF chosen THEN "save_all_comments" ELSE "save_cancelled", ""),
                IF chosen
                THEN File(on_right_click_save_all_comments(scene), TRUE, scene.items)
                ELSE csv)

\* the file is rewritten outside the program
EditFile(lines) == CommentStep(SceneEvent("file_edited", ""), File(lines, FALSE, <<>>))

\* "Load comments into this view (.csv)...": the file is chosen or the file
\* dialog is cancelled
LoadComments(chosen) ==
    /\ csv.exists
    /\ CommentStep(IF chosen
                   THEN on_right_click_load_comments(SceneEvent("load_comments", ""), csv.lines)
                   ELSE SceneEvent("load_cancelled", ""),
                   csv)

InitComments ==
    /\ views = [v \in Viewers |-> Closed]
    /\ main = MultiViewMainWindow
    /\ ghost = Ghost("init", 0, <<0, 0>>, {})
    /\ steps = MaxCommentEvents
    /\ calc = CalcIdle
    /\ scene = CustomQGraphicsScene
    /\ dialog = NoDialog
    /\ csv = NoFile
    /\ app = Running

NextComments ==
    \/ \E scene_pos \in CommentPoints : RightClickComment(scene_pos)
    \/ \E i \in 1..MaxComments, color \in CommentColors : SetCommentColor(i, color)
    \/ \E i \in 1..MaxComments, scene_pos \in CommentPoints : MoveComment(i, scene_pos)
    \/ \E i \in 1..MaxComments, comment_text \in CommentStrings : EditComment(i, comment_text)
    \/ PlaceRuler("px", <<2, 4>>, <<8, 12>>)
    \/ \E chosen \in BOOLEAN : SaveAllComments(chosen)
    \/ \E lines \in EditedFiles : EditFile(lines)
    \/ \E chosen \in BOOLEAN : LoadComments(chosen)

SpecComments == InitComments /\ [][NextComments]_vars

\* a row that on_right_click_load_comments can make a comment of
ValidRow(row) ==
    /\ Len(row) >= 5
    /\ row[1] = <<"plain text">>
    /\ float(row[2]).raised = ""
    /\ float(row[3]).raised = ""

\* the rows under the column row of a file that has one
RowsOf(lines) ==
    SubSeq(csv_reader(lines), index(csv_reader(lines), ColumnRow) + 1, Len(lines))

\* the items a step has added to the scene
Added == SubSeq(scene'.items, Len(scene.items) + 1, Len(scene'.items))

Loading == csv.exists /\ scene'.last.event = "load_comments"

\* C26: an import never raises; of a file with the column row it adds one
\* comment for each row that parses, whatever the other rows are, and shows
\* the notice of no comments when none does; of a file without the column
\* row it adds nothing and shows the notice of an invalid file.
C26_MalformedRowsSkipped ==
    [][Loading =>
          /\ scene'.raised = ""
          /\ index(csv_reader(csv.lines), ColumnRow) = 0
                 => Added = <<>> /\ scene'.box = "Invalid .csv comment file"
          /\ index(csv_reader(csv.lines), ColumnRow) # 0
                 => /\ Len(Added) = Len(SelectSeq(RowsOf(csv.lines), ValidRow))
                    /\ (Added = <<>>) = (scene'.box = "No comments in .csv")]_vars

\* the part of C26 about files in which no row has the style of a comment,
\* or that have no column row: a notice, no exception
C26_NoticeOnly ==
    [][(Loading /\ \A i \in 1..Len(csv_reader(csv.lines)) :
                       Len(csv_reader(csv.lines)[i]) > 0
                           /\ csv_reader(csv.lines)[i][1] # <<"plain text">>)
          => scene'.raised = "" /\ scene'.box # "" /\ Added = <<>>]_vars

\* what the round trip is to keep of an item: class and position, and the
\* colour of a comment or the unit of a ruler
Entity(item) ==
    IF isinstance(item, "CommentItem")
    THEN [class |-> item.class, pos |-> item.pos, color |-> item.color, unit |-> ""]
    ELSE [class |-> item.class, pos |-> item.line, color |-> "", unit |-> item.unit]

Count(s, e) == Cardinality({i \in 1..Len(s) : Entity(s[i]) = e})

SameEntities(s, t) ==
    \A e \in {Entity(s[i]) : i \in 1..Len(s)} \cup {Entity(t[i]) : i \in 1..Len(t)} :
        Count(s, e) = Count(t, e)

\* the file on disk was exported from the items the scene holds now
RoundTrip == Loading /\ csv.is_export /\ csv.exported = scene.items

C27_CommentsRoundTrip ==
    [][(RoundTrip /\ \A i \in 1..Len(scene.items) : isinstance(scene.items[i], "CommentItem"))
          => scene'.raised = "" /\ SameEntities(Added, scene.items)]_vars

----------------------------------------------------------------------------
(* butterfly_viewer.py: main() and the creator of sliding overlays *)

MaxStartupEvents == 2

MaxSubWindows == 2

\* A path is a text; None is the empty sequence. One path of the model is
\* no image file.
Slots == {"main_topleft", "topright", "bottomleft", "bottomright"}

Paths == {None, <<"a.png">>, <<"missing.png">>}

\* QPixmap(file_path) has read an image (depth() is not 0, width() is not 0)
Readable(file_path) == file_path = <<"a.png">>

\* the process before main(): the parsed arguments, the four labels of the
\* creator empty, the Create button disabled, no subwindow
Process(args) ==
    [shown |-> FALSE, args |-> args,
     file_path |-> [slot \in Slots |-> None],
     create_splitview_pushbutton |-> FALSE,
     subWindowList |-> <<>>, raised |-> "", warning |-> "", last |-> "init"]

\* DragDropImageLabel.load_image; ImageLabel.setPixmap emits became_occupied,
\* which for the main label enables the Create button
load_image(a, slot, file_path) ==
    IF ~Readable(file_path) THEN a
    ELSE [a EXCEPT !.file_path[slot] = file_path,
                   !.create_splitview_pushbutton = (slot = "main_topleft") \/ @]

\* the subwindow that createMdiChild and the four setText calls give
MdiChild(filename_main_topleft, filename_topright, filename_bottomleft, filename_bottomright) ==
    [label |-> [main_topleft |-> filename_main_topleft, topright |-> filename_topright,
                bottomleft |-> filename_bottomleft, bottomright |-> filename_bottomright],
     pixmap_exists |-> [main_topleft |-> TRUE, topright |-> Readable(filename_topright),
                        bottomleft |-> Readable(filename_bottomleft),
                        bottomright |-> Readable(filename_bottomright)]]

\* MultiViewMainWindow.loadFile by the paths it is given: line 894 calls
\* filename_main_topleft.split, which None does not have; a main file that
\* cannot be read gives the warning box and no subwindow
MultiViewMainWindow_loadFile(a, filename_main_topleft, filename_topright, filename_bottomleft, filename_bottomright) ==
    IF filename_main_topleft = None THEN [a EXCEPT !.raised = "AttributeError"]
    ELSE IF ~Readable(filename_main_topleft)
    THEN [a EXCEPT !.warning = "Cannot read file"]
    ELSE [a EXCEPT !.subWindowList =
                       Append(@, MdiChild(filename_main_topleft, filename_topright,
                                          filename_bottomleft, filename_bottomright))]

\* MultiViewMainWindow.on_create_splitview
on_create_splitview(a) ==
    MultiViewMainWindow_loadFile(a, a.file_path["main_topleft"], a.file_path["topright"],
                                 a.file_path["bottomleft"], a.file_path["bottomright"])

\* main(), lines 2020-2033: the images named by the arguments are loaded
\* into the labels of the creator, in this order
Preloaded(a, slot) == IF a.args[slot] # None THEN load_image(a, slot, a.args[slot]) ELSE a

preloadedImageCount(args) == Cardinality({slot \in Slots : args[slot] # None})

\* main() from the construction of the main window on; an exception leaves
\* main() before mainWin.show()
main_(a) ==
    LET loaded == Preloaded(Preloaded(Preloaded(Preloaded(a, "main_topleft"), "bottomleft"),
                                      "topright"), "bottomright")
        created == IF preloadedImageCount(a.args) >= 2 THEN on_create_splitview(loaded)
                   ELSE loaded
    IN  [created EXCEPT !.shown = (created.raised = ""), !.last = "main"]

StartupStep(a) ==
    /\ Step
    /\ app' = a
    /\ UNCHANGED <<views, main, ghost, calc, scene, dialog, csv>>

\* the program is started
Main ==
    /\ app.last = "init"
    /\ StartupStep(main_(app))

\* the user puts an image into a label of the creator; the labels of the
\* overlays take one only while the main label is occupied
LoadImage(slot, file_path) ==
    /\ app.shown
    /\ slot = "main_topleft" \/ app.file_path["main_topleft"] # None
    /\ StartupStep(load_image([app EXCEPT !.last = "load_image", !.warning = ""],
                              slot, file_path))

\* the user clicks Create
ClickCreate ==
    /\ app.shown
    /\ app.create_splitview_pushbutton
    /\ Len(app.subWindowList) < MaxSubWindows
    /\ StartupStep(on_create_splitview([app EXCEPT !.last = "create", !.warning = ""]))

InitStartup ==
    /\ views = [v \in Viewers |-> Closed]
    /\ main = MultiViewMainWindow
    /\ ghost = Ghost("init", 0, <<0, 0>>, {})
    /\ steps = MaxStartupEvents
    /\ calc = CalcIdle
    /\ scene = CustomQGraphicsScene
    /\ dialog = NoDialog
    /\ csv = NoFile
    /\ \E args \in [Slots -> Paths] : app = Process(args)

NextStartup ==
    \/ Main
    \/ \E slot \in Slots, file_path \in Paths \ {None} : LoadImage(slot, file_path)
    \/ ClickCreate

SpecStartup == InitStartup /\ [][NextStartup]_vars

\* the arguments that are given name images
ImagesGiven == \A slot \in Slots : app.args[slot] # None => Readable(app.args[slot])

\* the subwindows hold one sliding overlay, with the images of the arguments
OneSplitViewOf(a) ==
    /\ a.raised = ""
    /\ Len(a.subWindowList) = 1
    /\ \A slot \in Slots :
           /\ a.subWindowList[1].label[slot] = a.args[slot]
           /\ a.subWindowList[1].pixmap_exists[slot] = (a.args[slot] # None)

\* C28: started with two or more of the four image paths, in whatever
\* combination, the program creates exactly one sliding overlay holding the
\* images given; started with fewer it creates none.
C28_StartupSplitView ==
    [][(app.last = "init" /\ app'.last = "main" /\ ImagesGiven)
          => IF preloadedImageCount(app.args) >= 2 THEN OneSplitViewOf(app')
             ELSE app'.subWindowList = <<>> /\ app'.raised = ""]_vars

\* the part of C28 that holds: the combinations that include the main image,
\* and those of fewer than two images
C28_StartupWithMainImage ==
    [][(app.last = "init" /\ app'.last = "main" /\ ImagesGiven
            /\ (app.args["main_topleft"] # None \/ preloadedImageCount(app.args) < 2))
          => IF preloadedImageCount(app.args) >= 2 THEN OneSplitViewOf(app')
             ELSE app'.subWindowList = <<>> /\ app'.raised = ""]_vars

----------------------------------------------------------------------------
(* butterfly_viewer.py: which windows a synchronisation may touch *)

\* the scroll position of a viewer
ScrollPosition(vw) == <<vw.hvalue, vw.vvalue>>

\* the step left the pan of viewer u alone: no scroll state was written to
\* it, and its scroll position is the same unless its zoom factor changed
PanKept(u) ==
    /\ u \notin ghost'.pan_receivers
    /\ views'[u].zoomFactor = views[u].zoomFactor => ScrollPosition(views'[u]) = ScrollPosition(views[u])

\* C32: while Synchronize Pan is off, a step changes the pan of no open
\* viewer other than the one acted on; in particular the propagation of a
\* zoom change writes no scroll state to another viewer.
C32_NoPanWhileSynchPanOff ==
    [][~main.synchPanAct /\ ~main'.synchPanAct =>
           \A u \in Viewers \ {ghost'.sender} : views[u].open => PanKept(u)]_vars

\* the same for the steps in which synchZoom did not run
C32_NoPanWithoutSynchZoom ==
    [][~main.synchPanAct /\ ~main'.synchPanAct /\ ghost'.zoom_sender = 0 =>
           \A u \in Viewers \ {ghost'.sender} : views[u].open => PanKept(u)]_vars

\* Synchronize Pan is off, the pan of the active viewer was changed and
\* another open viewer that takes part in the pan synchronisation kept a
\* different scroll position
C32_PanKeptApart ==
    /\ ~main.synchPanAct
    /\ ghost.event = "pan"
    /\ ghost.sender # 0
    /\ \E u \in Viewers \ {ghost.sender} :
           /\ views[u].open
           /\ views[u].sync_this_pan
           /\ ScrollPosition(views[u]) # ScrollPosition(views[ghost.sender])

\* C33: every pass of the pan synchronisation that writes to a window was
\* begun by the active window, and a window other than the one acted on
\* whose scroll position changed at an unchanged zoom factor was written to
\* by such a pass: a scroll change of a window that is not active moves no
\* other window.
C33_PanFromActiveOnly ==
    [][/\ ghost'.pan_receivers # {} =>
              /\ ghost'.pan_sender = main'.activeSubWindow
              /\ ghost'.pan_sender \notin ghost'.pan_receivers
       /\ \A u \in Viewers \ {ghost'.sender} :
              (/\ views[u].open
               /\ views'[u].zoomFactor = views[u].zoomFactor
               /\ ScrollPosition(views'[u]) # ScrollPosition(views[u]))
                  => u \in ghost'.pan_receivers]_vars

\* the wheel was turned over a window that is not the active one, with both
\* synchronisations on; another window takes part in the pan synchronisation
\* and ended at a scroll position of its own
C33_Witness ==
    /\ ghost.event = "wheel"
    /\ ghost.notches # 0
    /\ ghost.sender # 0
    /\ main.activeSubWindow # 0
    /\ ghost.sender # main.activeSubWindow
    /\ main.synchPanAct
    /\ views[main.activeSubWindow].sync_this_pan
    /\ ghost.sender \notin ghost.pan_receivers
    /\ ScrollPosition(views[main.activeSubWindow]) # ScrollPosition(views[ghost.sender])

----------------------------------------------------------------------------
(* aux_functions.py, synchZoom: the adjustment factors as Python computes
   them *)

\* A positive float of Python (binary64) is [limbs, exp]: its 53 binary
\* digits are an integer of [2^52, 2^53) written in five limbs of 13 digits,
\* the lowest limb first and the highest equal to 1, and its value is that
\* integer times 2^(exp - 52).  Dimensions stay below 2^17 so that the
\* divisions stay within the integers.
Limbs5 == 1..5

Pow2(n) == 2^n

Base == Pow2(13)

\* the float of a power of two
PowerOfTwo(exp) == [limbs |-> <<0, 0, 0, 0, 1>>, exp |-> exp]

\* 1.0
One == PowerOfTwo(0)

\* the next float above lo
nextafter_up(lo) ==
    LET room == {k \in 1..4 : lo.limbs[k] # Base - 1}
    IN  IF room = {} THEN PowerOfTwo(lo.exp + 1)
        ELSE LET j == CHOOSE k \in room : \A n \in room : k <= n
                 Limb(k) == IF k < j THEN 0 ELSE IF k = j THEN lo.limbs[k] + 1 ELSE lo.limbs[k]
             IN  [limbs |-> <<Limb(1), Limb(2), Limb(3), Limb(4), 1>>, exp |-> lo.exp]

\* the next float below hi
nextafter_down(hi) ==
    LET room == {k \in 1..4 : hi.limbs[k] # 0}
    IN  IF room = {}
        THEN [limbs |-> <<Base - 1, Base - 1, Base - 1, Base - 1, 1>>, exp |-> hi.exp - 1]
        ELSE LET j == CHOOSE k \in room : \A n \in room : k <= n
                 Limb(k) == IF k < j THEN Base - 1 ELSE IF k = j THEN hi.limbs[k] - 1 ELSE hi.limbs[k]
             IN  [limbs |-> <<Limb(1), Limb(2), Limb(3), Limb(4), 1>>, exp |-> hi.exp]

\* round to nearest, ties to even: cut is the float cut off below its last
\* digit, guard the first digit cut off, sticky whether a later one is set
RoundNearest(cut, guard, sticky) ==
    IF guard = 1 /\ (sticky \/ cut.limbs[1] % 2 = 1) THEN nextafter_up(cut) ELSE cut

\* int / int of Python (long_true_divide): the float nearest to the quotient
\* of two positive integers.  The quotient is scaled into [1, 2) and divided
\* out limb by limb: r4 is the remainder after the leading 1, q3..q0 are the
\* limbs that follow and r0 is the last remainder.
truediv_int(a, b) ==
    LET up == CHOOSE k \in 0..30 : a < b * Pow2(k + 1) /\ (k = 0 \/ a >= b * Pow2(k))
        down == CHOOSE k \in 1..30 : a * Pow2(k) >= b /\ a * Pow2(k - 1) < b
        num == IF a >= b THEN a ELSE a * Pow2(down)
        den == IF a >= b THEN b * Pow2(up) ELSE b
        r4 == num - den
        q3 == (r4 * Base) \div den
        r3 == (r4 * Base) % den
        q2 == (r3 * Base) \div den
        r2 == (r3 * Base) % den
        q1 == (r2 * Base) \div den
        r1 == (r2 * Base) % den
        q0 == (r1 * Base) \div den
        r0 == (r1 * Base) % den
    IN  RoundNearest([limbs |-> <<q0, q1, q2, q3, 1>>, exp |-> IF a >= b THEN up ELSE -down],
                     IF 2 * r0 >= den THEN 1 ELSE 0, 2 * r0 # den /\ r0 # 0)

\* the limbs of the exact product of the limb rows xs and ys: the columns
\* c..10 are put after acc
RECURSIVE ProductLimbs(_, _, _, _, _)
ProductLimbs(xs, ys, c, carry, acc) ==
    IF c = 11 THEN acc
    ELSE LET Term(l) == IF c - l \in Limbs5 THEN xs[l] * ys[c - l] ELSE 0
             sum == Term(1) + Term(2) + Term(3) + Term(4) + Term(5) + carry
         IN  ProductLimbs(xs, ys, c + 1, sum \div Base, Append(acc, sum % Base))

\* float * float: the float nearest to the exact product.  The product of
\* two integers of [2^52, 2^53) lies in [2^104, 2^106): p[9] is 1 when its
\* first digit has weight 104, and 2 or 3 when it has weight 105 and the
\* digits are taken one place higher.
float_mul(x, y) ==
    LET p == ProductLimbs(x.limbs, y.limbs, 2, 0, <<>>)
        low == p[1] # 0 \/ p[2] # 0 \/ p[3] # 0
        Half(k) == p[k] \div 2 + (p[k + 1] % 2) * (Base \div 2)
    IN  IF p[9] = 1
        THEN RoundNearest([limbs |-> <<p[5], p[6], p[7], p[8], 1>>, exp |-> x.exp + y.exp],
                          p[4] \div (Base \div 2), low \/ p[4] % (Base \div 2) # 0)
        ELSE RoundNearest([limbs |-> <<Half(5), Half(6), Half(7), Half(8), 1>>,
                           exp |-> x.exp + y.exp + 1],
                          p[5] % 2, low \/ p[4] # 0)

\* float / float is divided out digit by digit on the 53 digits written in
\* three words <<low, middle, high>> of 26, 26 and at most 2 digits
Word == Pow2(26)

Words(f) == <<f.limbs[1] + Base * f.limbs[2], f.limbs[3] + Base * f.limbs[4], f.limbs[5]>>

Twice(t) ==
    LET low == 2 * t[1]
        middle == 2 * t[2] + low \div Word
    IN  <<low % Word, middle % Word, 2 * t[3] + middle \div Word>>

AtLeast(s, t) ==
    s[3] > t[3] \/ (s[3] = t[3] /\ (s[2] > t[2] \/ (s[2] = t[2] /\ s[1] >= t[1])))

\* s - t for s at least t
Minus(s, t) ==
    LET borrow1 == IF s[1] < t[1] THEN 1 ELSE 0
        borrow2 == IF s[2] < t[2] + borrow1 THEN 1 ELSE 0
    IN  <<s[1] - t[1] + borrow1 * Word, s[2] - t[2] - borrow1 + borrow2 * Word,
          s[3] - t[3] - borrow2>>

\* n more digits of rem / den are put after the digits acc; the result is
\* the last remainder and the digits
RECURSIVE DivideDigits(_, _, _, _)
DivideDigits(rem, den, n, acc) ==
    IF n = 0 THEN <<rem, acc>>
    ELSE LET twice == Twice(rem)
             digits == Twice(acc)
         IN  IF AtLeast(twice, den)
             THEN DivideDigits(Minus(twice, den), den, n - 1,
                               <<digits[1] + 1, digits[2], digits[3]>>)
             ELSE DivideDigits(twice, den, n - 1, digits)

\* float / float: the float nearest to the exact quotient, which lies
\* between 1/2 and 2 for the digits of two floats
float_div(x, y) ==
    LET num == Words(x)
        den == Words(y)
        whole == AtLeast(num, den)
        first == IF whole THEN Minus(num, den) ELSE Minus(Twice(num), den)
        s1 == DivideDigits(first, den, 13, <<1, 0, 0>>)
        s2 == DivideDigits(s1[1], den, 13, s1[2])
        s3 == DivideDigits(s2[1], den, 13, s2[2])
        s4 == DivideDigits(s3[1], den, 13, s3[2])
        q == s4[2]
        last == Twice(s4[1])
    IN  RoundNearest([limbs |-> <<q[1] % Base, q[1] \div Base, q[2] % Base, q[2] \div Base, q[3]>>,
                      exp |-> x.exp - y.exp - (IF whole THEN 0 ELSE 1)],
                     IF AtLeast(last, den) THEN 1 ELSE 0,
                     last # den /\ last # <<0, 0, 0>>)

\* the floats at most n floats away from x
RECURSIVE Above(_, _)
Above(x, n) == IF n = 0 THEN {x} ELSE {x} \cup Above(nextafter_up(x), n - 1)

RECURSIVE Below(_, _)
Below(x, n) == IF n = 0 THEN {x} ELSE {x} \cup Below(nextafter_down(x), n - 1)

Near(x, n) == Above(x, n) \cup Below(x, n)

\* determineSyncAdjustmentFactor with the division and the results of Python:
\* the int 1 and the float 1.0 are both One
determineSyncAdjustmentFactor_float_ShorterSide(sync_by, sender_dimension, receiver_width, receiver_height) ==
    IF receiver_width = 0 \/ receiver_height = 0 THEN One
    ELSE IF sync_by = "width" THEN truediv_int(sender_dimension[1], receiver_width)
    ELSE IF sync_by = "height" THEN truediv_int(sender_dimension[1], receiver_height)
    ELSE IF sync_by = "pixel" THEN One
    ELSE IF receiver_width >= receiver_height
         THEN truediv_int(sender_dimension[1], receiver_height)
         ELSE truediv_int(sender_dimension[1], receiver_width)

determineSyncAdjustmentFactor_float(sync_by, sender_dimension, receiver_width, receiver_height) ==
    IF receiver_width = 0 \/ receiver_height = 0 THEN One
    ELSE IF sync_by = "width" THEN truediv_int(sender_dimension[1], receiver_width)
    ELSE IF sync_by = "height" THEN truediv_int(sender_dimension[1], receiver_height)
    ELSE IF sync_by = "pixel" THEN One
    ELSE IF receiver_width >= receiver_height
         THEN truediv_int(sender_dimension[1], receiver_width)
         ELSE truediv_int(sender_dimension[1], receiver_height)

\* synchronisations of the zoom the model follows
MaxFactorEvents == 2

\* three windows with an image each
Windows3 == 1..3

\* width and height of the images
ImageSizes == {<<3, 1>>, <<11, 3>>, <<1, 5>>, <<5, 11>>}

\* the zoom factor of the first sender: 1.0 (Actual Size), or 1.25
StartZooms == {One, truediv_int(5, 4)}

\* the windows of a synchronisation: the images, the zoom factors, the
\* strategy and the window that sent last
FactorInputs ==
    {[stage |-> "float", sync_by |-> by, size |-> sz,
      zoomFactor |-> [v \in Windows3 |-> IF v = 1 THEN z ELSE One], sender |-> 0] :
         by \in SyncZoomBys, sz \in [Windows3 -> ImageSizes], z \in StartZooms}

InitFactor ==
    /\ views = [v \in Viewers |-> Closed]
    /\ main = MultiViewMainWindow
    /\ ghost = Ghost("init", 0, <<0, 0>>, {})
    /\ steps = MaxFactorEvents
    /\ calc \in FactorInputs
    /\ scene = CustomQGraphicsScene
    /\ dialog = NoDialog
    /\ csv = NoFile
    /\ app = Running

\* the setter of zoomFactor (aux_viewing.py, lines 141-143): the view, whose
\* scale is zoomFactor, is scaled by newZoomFactor / zoomFactor, and
\* QGraphicsView.scale multiplies the scale by its argument
zoomFactor_float(zoomFactor, newZoomFactor) ==
    float_mul(zoomFactor, float_div(newZoomFactor, zoomFactor))

\* the factor synchZoom uses from the window with image s to the one with
\* image r (lines 1684-1696)
Factor(sync_by, s, r) ==
    determineSyncAdjustmentFactor_float(
        sync_by, determineSyncSenderDimension(s[1], s[2], sync_by), r[1], r[2])

\* synchZoom from window fromViewer, all windows taking part:
\* receiver.zoomFactor = newZoomFactor*adjustment_factor
synchZoom_float(c, fromViewer) ==
    [c EXCEPT !.sender = fromViewer,
              !.zoomFactor =
                  [v \in Windows3 |->
                       IF v = fromViewer THEN c.zoomFactor[v]
                       ELSE zoomFactor_float(
                                c.zoomFactor[v],
                                float_mul(c.zoomFactor[fromViewer],
                                          Factor(c.sync_by, c.size[fromViewer], c.size[v])))]]

\* the zoom of window fromViewer is synchronised to the others
SynchZoomFrom(fromViewer) ==
    /\ Step
    /\ calc' = synchZoom_float(calc, fromViewer)
    /\ UNCHANGED <<views, main, ghost, scene, dialog, csv, app>>

NextFactor == \E fromViewer \in Windows3 : SynchZoomFrom(fromViewer)

SpecFactor == InitFactor /\ [][NextFactor]_vars

\* C34: the factors of a strategy are reciprocal and compose, and once the
\* zoom of one window has been synchronised, a synchronisation from any
\* window leaves every zoom factor as it is.
C34_FactorsReciprocalAndCompose ==
    [][/\ float_mul(Factor(calc.sync_by, calc.size[1], calc.size[2]),
                    Factor(calc.sync_by, calc.size[2], calc.size[1])) = One
       /\ float_mul(Factor(calc.sync_by, calc.size[1], calc.size[2]),
                    Factor(calc.sync_by, calc.size[2], calc.size[3]))
              = Factor(calc.sync_by, calc.size[1], calc.size[3])
       /\ calc.sender # 0 => calc'.zoomFactor = calc.zoomFactor]_vars

\* C34 as it holds for floats: the product of a factor and its reciprocal is
\* within two floats of 1.0, the product of two factors in a row within
\* four floats of the direct factor, and a synchronisation after the first
\* leaves every zoom factor within four floats of what it was.
C34_FactorsReciprocalWithinRounding ==
    [][/\ float_mul(Factor(calc.sync_by, calc.size[1], calc.size[2]),
                    Factor(calc.sync_by, calc.size[2], calc.size[1])) \in Near(One, 2)
       /\ float_mul(Factor(calc.sync_by, calc.size[1], calc.size[2]),
                    Factor(calc.sync_by, calc.size[2], calc.size[3]))
              \in Near(Factor(calc.sync_by, calc.size[1], calc.size[3]), 4)
       /\ calc.sender # 0 =>
              \A v \in Windows3 : calc'.zoomFactor[v] \in Near(calc.zoomFactor[v], 4)]_vars

\* a receiver has synchronised back to the first sender under a strategy
\* that goes by a dimension, the images differing in it, and the zoom of the
\* first sender is no longer the float it started with
C34_Witness ==
    /\ calc.stage = "float"
    /\ steps = 0
    /\ calc.sender = 1
    /\ calc.sync_by # "pixel"
    /\ Factor(calc.sync_by, calc.size[1], calc.size[2]) # One
    /\ calc.zoomFactor[1] \notin StartZooms

----------------------------------------------------------------------------
(* aux_splitview.py: the size of the pane rectangles for a pointer anywhere *)

\* pointer events the model follows in this specification
MaxSplitEvents == 2

\* pointer positions in the coordinates of the widget: above and left of it,
\* inside it, right of it (over the interface panel) and below it
PointerPositions == {<<-5, -3>>, <<11, 21>>, <<300, 21>>, <<11, 300>>}

InitSplit ==
    /\ views = [v \in Viewers |-> Closed]
    /\ main = MultiViewMainWindow
    /\ ghost = Ghost("init", 0, <<0, 0>>, {})
    /\ steps = MaxSplitEvents
    /\ calc = CalcIdle
    /\ scene = CustomQGraphicsScene
    /\ dialog = NoDialog
    /\ csv = NoFile
    /\ app = Running

NextSplit ==
    \/ \E v \in Viewers, img \in Images, c \in PointerPositions : loadFile(v, img, c)
    \/ \E v \in Viewers, pos \in PointerPositions : MouseMoveOverViewer(v, pos)
    \/ \E v \in Viewers, pos \in PointerPositions : MouseMoveOverDeadzone(v, pos)
    \/ \E c \in PointerPositions : MouseMoveOverInterface(c)
    \/ \E c \in PointerPositions : ZoomIn(c)
    \/ \E c \in PointerPositions : ZoomOut(c)

SpecSplit == InitSplit /\ [][NextSplit]_vars

\* the rectangle <<left, top, width, height>> has its top-left corner at or
\* before its bottom-right corner
NonNegativeSize(rect) == rect[3][1] >= 0 /\ rect[4][1] >= 0

PanesNonNegative(vw) ==
    /\ NonNegativeSize(pane_rects(vw).rect_of_scene_topright)
    /\ NonNegativeSize(pane_rects(vw).rect_of_scene_bottomright)
    /\ NonNegativeSize(pane_rects(vw).rect_of_scene_bottomleft)

\* C35: wherever the pointer is, every pane rectangle of every open viewer
\* has non-negative width and height.
C35_PaneRectsNonNegative ==
    \A v \in Viewers : views[v].open => PanesNonNegative(views[v])

----------------------------------------------------------------------------
(* aux_splitview.py, SplitView.__init__: the adjustment factors of the overlays *)

\* a rational that is greater than zero (and, as a quotient of two integers
\* with a denominator other than zero, finite)
PositiveFinite(a) == a[1] > 0 /\ a[2] > 0

\* C36: every viewer opened by loadFile has three adjustment factors that are
\* greater than zero and finite, and 1 for an overlay that is absent, so that
\* update_split and the refresh never divide by zero for their scales.
C36_OverlayAdjustsPositive ==
    \A v \in Viewers :
        views[v].open =>
            /\ PositiveFinite(views[v].topright_zoom_adjust)
            /\ PositiveFinite(views[v].bottomright_zoom_adjust)
            /\ PositiveFinite(views[v].bottomleft_zoom_adjust)
            /\ ~views[v].pixmap_topright_exists => views[v].topright_zoom_adjust = RI(1)
            /\ ~views[v].pixmap_bottomleft_exists => views[v].bottomleft_zoom_adjust = RI(1)
            /\ views[v].bottomright_zoom_adjust = RI(1)

\* two viewers are open, one with a top-right overlay of half the size and
\* one without an overlay, and the split of one of them was updated
C36_Witness ==
    /\ ghost.event \in {"mouse_viewer", "zoomIn"}
    /\ \E v \in Viewers :
           /\ views[v].open
           /\ views[v].pixmap_topright_exists
           /\ views[v].topright_zoom_adjust = RI(2)
    /\ \E v \in Viewers :
           /\ views[v].open
           /\ ~views[v].pixmap_topright_exists

----------------------------------------------------------------------------
(* butterfly_viewer.py, update_sliders: the opacities across window switches *)

\* C37: the activation of a window leaves the opacity of every pane of every
\* viewer as it was, and afterwards the sliders show the opacities of the
\* window that is now active.
C37_ActivationKeepsOpacities ==
    [][ghost'.event = "subWindowActivated" =>
           /\ \A v \in Viewers, pane \in Panes :
                  OpacityOf(views'[v], pane) = OpacityOf(views[v], pane)
           /\ main'.activeSubWindow = ghost'.sender
           /\ SlidersShow(main', views'[main'.activeSubWindow])]_vars

\* a window was activated whose opacities differ from those of the other
\* window, and the sliders had to be moved to them
C37_Witness ==
    /\ ghost.event = "subWindowActivated"
    /\ ghost.slider_notifications # <<>>
    /\ \A v \in Viewers : views[v].open
    /\ \E pane \in Panes : OpacityOf(views[1], pane) # OpacityOf(views[2], pane)
    /\ \E pane \in Panes : OpacityOf(views[ghost.sender], pane) # 100

----------------------------------------------------------------------------
(* aux_scenes.py, aux_splitview.py, aux_rulers.py: the rulers after the
   conversion was changed *)

\* the factor a ruler has under the conversion px_per_mm
FactorUnder(ruler, px_per_mm) ==
    IF ruler.unit = "px" THEN RI(1) ELSE RMul(px_per_mm, ruler.mm_per_unit)

C38_PixelAndMillimetreRulersTakeNewConversion ==
    scene.last.event = "dialog" =>
        \A i \in 1..Len(scene.items) :
            isinstance(scene.items[i], "RulerItem") /\ scene.items[i].unit \in {"px", "mm"} =>
                scene.items[i].px_per_unit = FactorUnder(scene.items[i], scene.px_per_unit)

\* the dialog changed the conversion with a millimetre ruler and a pixel
\* ruler on the scene
C38_ConversionChangedUnderRulers ==
    /\ scene.last.event = "dialog"
    /\ scene.px_per_unit = RI(2)
    /\ \E i \in 1..Len(scene.items) : scene.items[i].unit = "mm"
    /\ \E i \in 1..Len(scene.items) : scene.items[i].unit = "px"

----------------------------------------------------------------------------
(* aux_rulers.py, RulerItem.__init__: the factor of a ruler in each unit *)

\* events of the specification of the units
MaxUnitEvents == 3

\* the units RulerItem.__init__ knows
AllRulerUnits == {"px", "mm", "cm", "m", "in", "ft", "yd"}

InitUnits ==
    /\ views = [v \in Viewers |-> Closed]
    /\ main = MultiViewMainWindow
    /\ ghost = Ghost("init", 0, <<0, 0>>, {})
    /\ steps = MaxUnitEvents
    /\ calc = CalcIdle
    /\ scene = CustomQGraphicsScene
    /\ dialog = NoDialog
    /\ csv = NoFile
    /\ app = Running

NextUnits ==
    \/ \E f \in RulerFactors : DialogAccepted(f)
    \/ \E unit \in AllRulerUnits : PlaceRuler(unit, <<2, 4>>, <<8, 12>>)

SpecUnits == InitUnits /\ [][NextUnits]_vars

\* the millimetres in a unit of length
MillimetresIn(unit) ==
    IF unit = "cm" THEN RI(10)
    ELSE IF unit = "m" THEN RI(1000)
    ELSE IF unit = "in" THEN R(254, 10)
    ELSE IF unit = "ft" THEN R(3048, 10)
    ELSE IF unit = "yd" THEN R(9144, 10)
    ELSE RI(1)

\* the ruler a step has put on the scene
NewRuler(sc) == sc.items[Len(sc.items)]

C39_FactorIsMillimetresInUnitButMetre ==
    [][scene'.last.event = "place_ruler" /\ scene'.last.unit \notin {"px", "m"} =>
           /\ NewRuler(scene').px_per_unit
                  = RMul(scene.px_per_unit, MillimetresIn(scene'.last.unit))
           /\ Len(scene.items) > 0 /\ NewRuler(scene).unit \notin {"px", "m"}
              /\ NewRuler(scene).px_per_unit
                     = RMul(scene.px_per_unit, NewRuler(scene).mm_per_unit) =>
                  RDiv(NewRuler(scene').px_per_unit, NewRuler(scene).px_per_unit)
                      = RDiv(MillimetresIn(scene'.last.unit),
                             MillimetresIn(NewRuler(scene).unit))]_vars

\* an inch ruler was placed after a yard ruler under 2 pixels per millimetre
C39_InchAfterYard ==
    /\ scene.last.event = "place_ruler"
    /\ scene.px_per_unit = RI(2)
    /\ Len(scene.items) = 2
    /\ scene.items[1].unit = "yd"
    /\ scene.items[2].unit = "in"
    /\ scene.items[2].px_per_unit = R(508, 10)

====
